---- MODULE Spec2Model ----
(***************************************************************************)
(* Model of the metrics pipeline of databricks-job-monitor:                *)
(*   - MetricsCollector (src/src/dashboard/metrics_collector.py): the      *)
(*     TTL cache, the two-future fan-out and clear_cache, with caller      *)
(*     threads interleaved at every access to shared state;                *)
(*   - SystemTablesClient, JobMonitor and ClusterMonitor                   *)
(*     (src/src/monitors): connection set-up, query execution and the      *)
(*     per-table fetch sequence of a monitor.                              *)
(* Python dicts are functions with an explicit DOMAIN; time is in seconds. *)
(***************************************************************************)
EXTENDS Integers, Sequences, FiniteSets, TLC

\* ------------------------------------------------------------------ bounds
MaxCalls == 3
MaxNow == 300
ClockStep == 300

DayValues == {1, 7}
RefreshIntervals == {0, 300}

\* --------------------------------------------------------- program constants
FutureTimeout == 300

\* ------------------------------------------------------------------- dicts
EmptyDict == [x \in {} |-> 0]

Put(f, k, v) == [x \in DOMAIN f \cup {k} |-> IF x = k THEN v ELSE f[x]]

\* the caller threads that share one MetricsCollector
Threads == {1, 2}

\* what a monitor task hands back when it returns: its mapping of tables
\* (each table stands for its rows)
JobTables == [runtime_metrics |-> 1, failure_analysis |-> 1, cluster_utilization |-> 1]
ClusterTables == [cluster_utilization |-> 1, node_types |-> 1, efficiency_metrics |-> 1, cost_analysis |-> 1]
JobResults == {JobTables}
ClusterResults == {ClusterTables}

NoFuture == [state |-> "none"]
RunningFuture == [state |-> "running"]
RaisedFuture == [state |-> "raised"]
ReturnedFuture(v) == [state |-> "returned", value |-> v]
\* the task ended after the wait for it had timed out: nothing reads its result
LateFuture == [state |-> "finished_late"]

VARIABLES
    now,               \* datetime.now()
    refresh_interval,  \* MetricsCollector.refresh_interval
    cache,             \* MetricsCollector._cache
    cache_timestamps,  \* MetricsCollector._cache_timestamps
    cache_lock,        \* MetricsCollector._cache_lock: 0 free, else the holder
    pc,                \* position of each caller thread
    days,              \* argument of the running get_all_metrics
    use_cache,         \* argument of the running get_all_metrics
    metrics,           \* local `metrics` of the running get_all_metrics
    job_future,        \* job_future of the running call
    cluster_future,    \* cluster_future of the running call
    wait_start,        \* when the running Future.result(timeout) began
    invoked,           \* monitor invocations made by the running call
    calls,             \* number of calls started so far
    cacheWriter,       \* thread that stored each _cache entry
    tsWriter,          \* thread that stored each _cache_timestamps entry
    \* --- SystemTablesClient and the monitors built on it
    warehouse_id,      \* DatabricksConfig.warehouse_id ("" when absent)
    client,            \* SystemTablesClient(config): "unbuilt", "built", "raised"
    sql_connection,    \* SystemTablesClient.sql_connection: "None" or "open"
    remote_ops,        \* what has been attempted on the remote warehouse
    log,               \* conditions the loggers have reported
    qpc,               \* position inside query_system_table
    q_for,             \* who called query_system_table: "direct", "monitor"
    q_error,           \* the statement of the try block that raised, or "none"
    q_result,          \* the DataFrame query_system_table returns
    mon,               \* the monitor whose metric fetch runs or ran last
    mon_days,          \* its `days` after validation
    mon_i,             \* index of the table it fetches next
    mon_metrics,       \* its local `metrics`
    mon_state,         \* "idle", "fetching", "returned"
    mon_ret,           \* the mapping it returned
    mon_raised_at,     \* the table whose fetch raised, or "none"
    mon_fetched,       \* the tables whose fetch returned a DataFrame
    \* --- anomaly detection and alerts
    alert_thresholds,  \* MonitoringConfig.alert_thresholds
    an_metrics,        \* the metrics handed to detect_anomalies / get_alerts
    anomalies,         \* what the last detect_anomalies call returned
    all_alerts,        \* what the last get_alerts call returned
    \* --- overall health
    hl_summary,        \* the `summary` handed to _assess_overall_health
    overall_health,    \* summary['overall_health']
    \* --- report-producing entry points
    ep,                \* the entry point that runs
    ep_config,         \* which of host, token, warehouse id the environment sets
    ep_pc,             \* its position
    ep_sql,            \* its SQL session: "None" or "open"
    ep_checked,        \* it is past its configuration and connection checks
    ep_metrics,        \* the tables it holds
    executed,          \* executions of each query template on the warehouse
    report,            \* the report rendered last
    files,             \* the report files written
    \* --- export_metrics_to_csv
    ex_now,            \* datetime.now(), in half seconds
    ex_calls,          \* export calls made so far
    ex_metrics,        \* the `metrics` of the last export call
    ex_writes,         \* the files the last export call wrote, in order
    exported_files,    \* the mapping the last export call returned
    out_dir,           \* the files of output_dir
    \* --- command-line entry points
    cli,               \* the script that runs
    cli_args,          \* its parsed flags
    cli_pc,            \* "start", "running", "returned", "exited"
    cli_stage,         \* index of the statement of main()'s try block
    cli_failure,       \* "none", "early_return", "exception"
    cli_ret,           \* what main() handed back
    exit_code,         \* exit status of the process, -1 while it runs
    \* --- one SystemTablesClient under both monitors
    sh_session,        \* its sql_connection: "None", "open", "closed"
    sh_days,           \* the `days` of the fan-out
    w_pc,              \* position of each pool worker
    w_i,               \* index of the table each worker fetches next
    w_days,            \* the day-window each monitor works with
    issued,            \* the queries handed to query_system_table
    wire,              \* the statements sent, with the session state then
    d_call,            \* the client method the main thread called last
    d_pc,              \* its position
    d_path,            \* "no_connection" or "try_block"
    d_after_close,     \* close_connections had run when it was called
    mgr_sql,           \* DatabricksConnectionManager._sql_connection
    mgr_sessions,      \* sessions the manager has open
    \* --- the snapshots of one export call
    sn_now,            \* datetime.now()
    sn_interval,       \* MetricsCollector.refresh_interval
    sn_cache,          \* MetricsCollector._cache
    sn_stamps,         \* MetricsCollector._cache_timestamps
    sn_pc,             \* position of export_metrics_to_csv
    sn_metrics,        \* the metrics the last get_all_metrics returned
    sn_fanouts,        \* fan-outs made by the running (or last) export
    sn_csv_time,       \* collection_time of the metrics in the CSV files
    sn_json_time,      \* collection_time written to the JSON summary
    sn_exports,        \* export calls started so far
    \* --- get_summary_statistics
    su_metrics,        \* the metrics get_all_metrics handed to it
    su_summary         \* the summary it returned

collectorVars == <<now, refresh_interval, cache, cache_timestamps, cache_lock,
                   pc, days, use_cache, metrics, job_future, cluster_future,
                   wait_start, invoked, calls, cacheWriter, tsWriter>>

monVars == <<warehouse_id, client, sql_connection, remote_ops, log, qpc, q_for,
             q_error, q_result, mon, mon_days, mon_i, mon_metrics, mon_state,
             mon_ret, mon_raised_at, mon_fetched>>

anomVars == <<alert_thresholds, an_metrics, anomalies, all_alerts>>

healthVars == <<hl_summary, overall_health>>

reportVars == <<ep, ep_config, ep_pc, ep_sql, ep_checked, ep_metrics, executed,
                report, files>>

exportVars == <<ex_now, ex_calls, ex_metrics, ex_writes, exported_files, out_dir>>

cliVars == <<cli, cli_args, cli_pc, cli_stage, cli_failure, cli_ret, exit_code>>

sharedVars == <<sh_session, sh_days, w_pc, w_i, w_days, issued, wire, d_call,
                d_pc, d_path, d_after_close, mgr_sql, mgr_sessions>>

snapVars == <<sn_now, sn_interval, sn_cache, sn_stamps, sn_pc, sn_metrics,
              sn_fanouts, sn_csv_time, sn_json_time, sn_exports>>

summaryVars == <<su_metrics, su_summary>>

extraVars == <<cliVars, sharedVars, snapVars, summaryVars>>

toolVars == <<anomVars, healthVars, reportVars, exportVars, extraVars>>

vars == <<collectorVars, monVars, toolVars>>

\* a cache key that leaves the day-window out
CacheKeyWithoutDays(d) == <<"all_metrics", 0>>

\* cache_key = f"all_metrics_{days}"
CacheKey(d) == <<"all_metrics", d>>

\* a validity test that never lets an entry expire
IsCacheValidForever(key, ts, at, ttl) ==
    key \in DOMAIN ts

\* a validity test that still accepts an entry whose age equals the TTL
IsCacheValidInclusive(key, ts, at, ttl) ==
    /\ key \in DOMAIN ts
    /\ at - ts[key] <= ttl

\* _is_cache_valid lines 239-243 for the timestamps ts read at time `at`
IsCacheValid(key, ts, at, ttl) ==
    /\ key \in DOMAIN ts
    /\ at - ts[key] < ttl

\* a store that keeps the slots of the previous entry which the new result
\* left empty
CacheStoreMerging(c, key, m) ==
    IF key \in DOMAIN c
    THEN Put(c, key,
             [k \in DOMAIN m |->
                 IF k \in {"job_metrics", "cluster_metrics"} /\ m[k] = EmptyDict
                 THEN c[key][k] ELSE m[k]])
    ELSE Put(c, key, m)

\* a store that sweeps every other entry out of the cache
CacheStoreSweeping(c, key, m) == [x \in {key} |-> m]

\* line 64: self._cache[cache_key] = metrics
CacheStore(c, key, m) == Put(c, key, m)

\* a dict that records the default day-window whatever the argument
NewMetricsDefaultWindow(d, at) ==
    [job_metrics |-> EmptyDict, cluster_metrics |-> EmptyDict,
     collection_time |-> at, days_analyzed |-> 7]

\* the dict built at lines 33-38
NewMetrics(d, at) ==
    [job_metrics |-> EmptyDict, cluster_metrics |-> EmptyDict,
     collection_time |-> at, days_analyzed |-> d]

NoInvocation == [job |-> 0, cluster |-> 0]

CollectorInit ==
    /\ now = 0
    /\ refresh_interval \in RefreshIntervals
    /\ cache = EmptyDict
    /\ cache_timestamps = EmptyDict
    /\ cache_lock = 0
    /\ pc = [t \in Threads |-> "idle"]
    /\ days = [t \in Threads |-> 0]
    /\ use_cache = [t \in Threads |-> TRUE]
    /\ metrics = [t \in Threads |-> EmptyDict]
    /\ job_future = [t \in Threads |-> NoFuture]
    /\ cluster_future = [t \in Threads |-> NoFuture]
    /\ wait_start = [t \in Threads |-> 0]
    /\ invoked = [t \in Threads |-> NoInvocation]
    /\ calls = 0
    /\ cacheWriter = EmptyDict
    /\ tsWriter = EmptyDict

\* the clock advances
Tick ==
    /\ now + ClockStep <= MaxNow
    /\ now' = now + ClockStep
    /\ UNCHANGED <<refresh_interval, cache, cache_timestamps, cache_lock, pc,
                   days, use_cache, metrics, job_future, cluster_future,
                   wait_start, invoked, calls, cacheWriter, tsWriter>>

\* lines 31-44: build `metrics` for day-window d, submit both monitor tasks
\* to the pool, start waiting for the first
SubmitTasks(t, d) ==
    /\ metrics' = [metrics EXCEPT ![t] = NewMetrics(d, now)]
    /\ job_future' = [job_future EXCEPT ![t] = RunningFuture]
    /\ cluster_future' = [cluster_future EXCEPT ![t] = RunningFuture]
    /\ invoked' = [invoked EXCEPT ![t] = [job |-> @.job + 1, cluster |-> @.cluster + 1]]
    /\ wait_start' = [wait_start EXCEPT ![t] = now]
    /\ pc' = [pc EXCEPT ![t] = "wait_job"]

\* get_all_metrics(days, use_cache), lines 25-27 with _is_cache_valid line 239
\* (`if cache_key not in self._cache_timestamps`); `use_cache and ...`
\* short-circuits, so without use_cache the validity check is skipped; a call
\* that is not served from the cache goes on to lines 31-44
GetAllMetrics(t) ==
    /\ pc[t] = "idle"
    /\ calls < MaxCalls
    /\ \E d \in DayValues, uc \in BOOLEAN :
        /\ days' = [days EXCEPT ![t] = d]
        /\ use_cache' = [use_cache EXCEPT ![t] = uc]
        /\ IF uc /\ CacheKey(d) \in DOMAIN cache_timestamps
           THEN /\ pc' = [pc EXCEPT ![t] = "valid_age"]
                /\ UNCHANGED <<metrics, job_future, cluster_future, invoked,
                               wait_start>>
           ELSE SubmitTasks(t, d)
    /\ calls' = calls + 1
    /\ UNCHANGED <<now, refresh_interval, cache, cache_timestamps, cache_lock,
                   cacheWriter, tsWriter>>

\* _is_cache_valid lines 242-243: read the timestamp (KeyError when a
\* concurrent clear_cache removed it), compare the age with the TTL; a stale
\* entry sends the call on to lines 31-44
IsCacheValidAge(t) ==
    /\ pc[t] = "valid_age"
    /\ IF CacheKey(days[t]) \notin DOMAIN cache_timestamps
       THEN /\ pc' = [pc EXCEPT ![t] = "raise_KeyError"]
            /\ UNCHANGED <<metrics, job_future, cluster_future, invoked,
                           wait_start>>
       ELSE IF IsCacheValid(CacheKey(days[t]), cache_timestamps, now,
                            refresh_interval)
            THEN /\ pc' = [pc EXCEPT ![t] = "hit"]
                 /\ UNCHANGED <<metrics, job_future, cluster_future, invoked,
                                wait_start>>
            ELSE SubmitTasks(t, days[t])
    /\ UNCHANGED <<now, refresh_interval, cache, cache_timestamps, cache_lock,
                   days, use_cache, calls, cacheWriter, tsWriter>>

\* the frame of a finished call is dropped
EndCall(t) ==
    /\ days' = [days EXCEPT ![t] = 0]
    /\ use_cache' = [use_cache EXCEPT ![t] = TRUE]
    /\ metrics' = [metrics EXCEPT ![t] = EmptyDict]
    /\ job_future' = [job_future EXCEPT ![t] = NoFuture]
    /\ cluster_future' = [cluster_future EXCEPT ![t] = NoFuture]
    /\ wait_start' = [wait_start EXCEPT ![t] = 0]
    /\ invoked' = [invoked EXCEPT ![t] = NoInvocation]

\* line 29: return self._cache[cache_key] (KeyError when the key is gone)
ReturnCached(t) ==
    /\ pc[t] = "hit"
    /\ IF CacheKey(days[t]) \in DOMAIN cache
       THEN /\ pc' = [pc EXCEPT ![t] = "idle"]
            /\ EndCall(t)
       ELSE /\ pc' = [pc EXCEPT ![t] = "raise_KeyError"]
            /\ UNCHANGED <<days, use_cache, metrics, job_future,
                           cluster_future, wait_start, invoked>>
    /\ UNCHANGED <<now, refresh_interval, cache, cache_timestamps, cache_lock,
                   calls, cacheWriter, tsWriter>>

\* how a monitor task can end: it returns a mapping or it raises
JobOutcomes == {ReturnedFuture(r) : r \in JobResults} \cup {RaisedFuture}
ClusterOutcomes == {ReturnedFuture(r) : r \in ClusterResults} \cup {RaisedFuture}

\* a collection that drops what the task returned
FutureSlotDropped(fut) == EmptyDict

\* what the try/except around Future.result(timeout=300) leaves in the slot:
\* the returned value, or {} when the task raised or the wait timed out
FutureSlot(fut) ==
    IF fut.state = "returned" THEN fut.value ELSE EmptyDict

\* Future.result raises TimeoutError once the wait has lasted the timeout
\* and the task is still running
WaitTimesOut(fut, waited) ==
    fut = RunningFuture /\ waited >= FutureTimeout

\* lines 47-52: job_future.result(timeout=300) under try/except; the task
\* ends (returns or raises) before the wait is over, or the wait times out
CollectJob(t) ==
    /\ pc[t] = "wait_job"
    /\ \/ /\ \E f \in JobOutcomes :
              /\ job_future' = [job_future EXCEPT ![t] = f]
              /\ metrics' = [metrics EXCEPT ![t] = Put(@, "job_metrics", FutureSlot(f))]
       \/ /\ WaitTimesOut(job_future[t], now - wait_start[t])
          /\ metrics' = [metrics EXCEPT ![t] =
                           Put(@, "job_metrics", FutureSlot(job_future[t]))]
          /\ job_future' = job_future
    /\ wait_start' = [wait_start EXCEPT ![t] = now]
    /\ pc' = [pc EXCEPT ![t] = "wait_cluster"]
    /\ UNCHANGED <<now, refresh_interval, cache, cache_timestamps, cache_lock,
                   days, use_cache, cluster_future, invoked, calls,
                   cacheWriter, tsWriter>>

\* lines 54-59: cluster_future.result(timeout=300) under try/except
CollectCluster(t) ==
    /\ pc[t] = "wait_cluster"
    /\ \/ /\ \E f \in ClusterOutcomes :
              /\ cluster_future' = [cluster_future EXCEPT ![t] = f]
              /\ metrics' = [metrics EXCEPT ![t] = Put(@, "cluster_metrics", FutureSlot(f))]
       \/ /\ WaitTimesOut(cluster_future[t], now - wait_start[t])
          /\ metrics' = [metrics EXCEPT ![t] =
                           Put(@, "cluster_metrics", FutureSlot(cluster_future[t]))]
          /\ cluster_future' = cluster_future
    /\ wait_start' = [wait_start EXCEPT ![t] = 0]
    /\ pc' = [pc EXCEPT ![t] = "shutdown"]
    /\ UNCHANGED <<now, refresh_interval, cache, cache_timestamps, cache_lock,
                   days, use_cache, job_future, invoked, calls,
                   cacheWriter, tsWriter>>

\* a task whose wait timed out keeps running in its pool worker and ends later
LateJobFinish(t) ==
    /\ pc[t] = "shutdown"
    /\ job_future[t] = RunningFuture
    /\ job_future' = [job_future EXCEPT ![t] = LateFuture]
    /\ UNCHANGED <<now, refresh_interval, cache, cache_timestamps, cache_lock,
                   pc, days, use_cache, metrics, cluster_future, wait_start,
                   invoked, calls, cacheWriter, tsWriter>>

LateClusterFinish(t) ==
    /\ pc[t] = "shutdown"
    /\ cluster_future[t] = RunningFuture
    /\ cluster_future' = [cluster_future EXCEPT ![t] = LateFuture]
    /\ UNCHANGED <<now, refresh_interval, cache, cache_timestamps, cache_lock,
                   pc, days, use_cache, metrics, job_future, wait_start,
                   invoked, calls, cacheWriter, tsWriter>>

\* a pool that is left without waiting for its running tasks
ExecutorShutdownNoWait(t) ==
    /\ pc[t] = "shutdown"
    /\ IF use_cache[t]
       THEN /\ pc' = [pc EXCEPT ![t] = "store"]
            /\ job_future' = [job_future EXCEPT ![t] = NoFuture]
            /\ cluster_future' = [cluster_future EXCEPT ![t] = NoFuture]
            /\ UNCHANGED <<days, use_cache, metrics, wait_start, invoked>>
       ELSE /\ pc' = [pc EXCEPT ![t] = "idle"]
            /\ EndCall(t)
    /\ UNCHANGED <<now, refresh_interval, cache, cache_timestamps, cache_lock,
                   calls, cacheWriter, tsWriter>>

\* end of the `with ThreadPoolExecutor` block (line 41): shutdown(wait=True)
\* returns once neither task is running; then line 62 `if use_cache`, and
\* without use_cache line 67 `return metrics`
ExecutorShutdown(t) ==
    /\ pc[t] = "shutdown"
    /\ job_future[t] # RunningFuture
    /\ cluster_future[t] # RunningFuture
    /\ IF use_cache[t]
       THEN /\ pc' = [pc EXCEPT ![t] = "store"]
            /\ job_future' = [job_future EXCEPT ![t] = NoFuture]
            /\ cluster_future' = [cluster_future EXCEPT ![t] = NoFuture]
            /\ UNCHANGED <<days, use_cache, metrics, wait_start, invoked>>
       ELSE /\ pc' = [pc EXCEPT ![t] = "idle"]
            /\ EndCall(t)
    /\ UNCHANGED <<now, refresh_interval, cache, cache_timestamps, cache_lock,
                   calls, cacheWriter, tsWriter>>

\* the store of line 64 made without taking the lock
StoreCacheUnlocked(t) ==
    /\ pc[t] = "store"
    /\ cache_lock' = cache_lock
    /\ cache' = CacheStore(cache, CacheKey(days[t]), metrics[t])
    /\ cacheWriter' = Put(cacheWriter, CacheKey(days[t]), t)
    /\ pc' = [pc EXCEPT ![t] = "store_ts"]
    /\ UNCHANGED <<now, refresh_interval, cache_timestamps, days, use_cache,
                   metrics, job_future, cluster_future, wait_start,
                   invoked, calls, tsWriter>>

\* lines 63-64: take the lock, self._cache[cache_key] = metrics
StoreCache(t) ==
    /\ pc[t] = "store"
    /\ cache_lock = 0
    /\ cache_lock' = t
    /\ cache' = CacheStore(cache, CacheKey(days[t]), metrics[t])
    /\ cacheWriter' = Put(cacheWriter, CacheKey(days[t]), t)
    /\ pc' = [pc EXCEPT ![t] = "store_ts"]
    /\ UNCHANGED <<now, refresh_interval, cache_timestamps, days, use_cache,
                   metrics, job_future, cluster_future, wait_start,
                   invoked, calls, tsWriter>>

\* line 65: self._cache_timestamps[cache_key] = datetime.now(); the lock is
\* released; line 67 `return metrics`
StoreTimestamp(t) ==
    /\ pc[t] = "store_ts"
    /\ cache_timestamps' = Put(cache_timestamps, CacheKey(days[t]), now)
    /\ tsWriter' = Put(tsWriter, CacheKey(days[t]), t)
    /\ cache_lock' = 0
    /\ pc' = [pc EXCEPT ![t] = "idle"]
    /\ EndCall(t)
    /\ UNCHANGED <<now, refresh_interval, cache, calls, cacheWriter>>

\* a KeyError leaves get_all_metrics and reaches the caller
RaiseKeyError(t) ==
    /\ pc[t] = "raise_KeyError"
    /\ pc' = [pc EXCEPT ![t] = "idle"]
    /\ EndCall(t)
    /\ UNCHANGED <<now, refresh_interval, cache, cache_timestamps, cache_lock,
                   calls, cacheWriter, tsWriter>>

\* clear_cache lines 285-286: take the lock, self._cache.clear()
ClearCache(t) ==
    /\ pc[t] = "idle"
    /\ calls < MaxCalls
    /\ cache_lock = 0
    /\ cache_lock' = t
    /\ cache' = EmptyDict
    /\ cacheWriter' = EmptyDict
    /\ calls' = calls + 1
    /\ pc' = [pc EXCEPT ![t] = "clear_ts"]
    /\ UNCHANGED <<now, refresh_interval, cache_timestamps, days, use_cache,
                   metrics, job_future, cluster_future, wait_start,
                   invoked, tsWriter>>

\* clear_cache line 287: self._cache_timestamps.clear(); lock released
ClearTimestamps(t) ==
    /\ pc[t] = "clear_ts"
    /\ cache_timestamps' = EmptyDict
    /\ tsWriter' = EmptyDict
    /\ cache_lock' = 0
    /\ pc' = [pc EXCEPT ![t] = "idle"]
    /\ UNCHANGED <<now, refresh_interval, cache, days, use_cache, metrics,
                   job_future, cluster_future, wait_start, invoked,
                   calls, cacheWriter>>

CollectorStep(t) ==
    \/ GetAllMetrics(t)
    \/ IsCacheValidAge(t)
    \/ ReturnCached(t)
    \/ CollectJob(t)
    \/ CollectCluster(t)
    \/ LateJobFinish(t)
    \/ LateClusterFinish(t)
    \/ ExecutorShutdown(t)
    \/ StoreCache(t)
    \/ StoreTimestamp(t)
    \/ RaiseKeyError(t)
    \/ ClearCache(t)
    \/ ClearTimestamps(t)

CollectorNext ==
    \/ Tick
    \/ \E t \in Threads : CollectorStep(t)

\* =========================================================================
\* SystemTablesClient (src/src/monitors/system_tables_client.py)
\* =========================================================================
WarehouseIds == {"", "wh"}
RowCounts == {0, 2}
DayInputs == {0, 7, 91}

\* pd.DataFrame with n rows; pd.DataFrame() has none
DataFrame(n) == [rows |-> n]
NoFrame == [rows |-> -1]

MonInit ==
    /\ warehouse_id \in WarehouseIds
    /\ client = "unbuilt"
    /\ sql_connection = "None"
    /\ remote_ops = {}
    /\ log = {}
    /\ qpc = "idle"
    /\ q_for = "direct"
    /\ q_error = "none"
    /\ q_result = NoFrame
    /\ mon = "none"
    /\ mon_days = 0
    /\ mon_i = 0
    /\ mon_metrics = EmptyDict
    /\ mon_state = "idle"
    /\ mon_ret = EmptyDict
    /\ mon_raised_at = "none"
    /\ mon_fetched = {}

\* a _setup_connections whose except branch swallows the failure
SetupFailureSwallowed ==
    /\ client' = "built"
    /\ log' = log \cup {"setup_failed"}

\* _setup_connections lines 50-52: log the failure and re-raise it
SetupFailure ==
    /\ client' = "raised"
    /\ log' = log \cup {"setup_failed"}

\* a set-up that opens a SQL session whatever the warehouse id
NeedsSqlSessionAlways(wid) == TRUE

\* line 37: `if self.config.warehouse_id`
NeedsSqlSession(wid) == wid # ""

\* SystemTablesClient.__init__ with _setup_connections (lines 19-52): the
\* WorkspaceClient is built, then sql.connect is called when a warehouse id
\* is configured; either of the two may raise
SetupConnections ==
    /\ client = "unbuilt"
    /\ \/ \* WorkspaceClient(...) raises
          /\ SetupFailure
          /\ UNCHANGED <<sql_connection, remote_ops>>
       \/ \* sql.connect(...) raises
          /\ NeedsSqlSession(warehouse_id)
          /\ remote_ops' = remote_ops \cup {"connect"}
          /\ SetupFailure
          /\ UNCHANGED sql_connection
       \/ \* sql.connect(...) returns the session
          /\ NeedsSqlSession(warehouse_id)
          /\ remote_ops' = remote_ops \cup {"connect"}
          /\ sql_connection' = "open"
          /\ client' = "built"
          /\ log' = log
       \/ \* no warehouse id: warning, no session
          /\ ~NeedsSqlSession(warehouse_id)
          /\ log' = log \cup {"no_warehouse_id"}
          /\ client' = "built"
          /\ UNCHANGED <<sql_connection, remote_ops>>
    /\ UNCHANGED <<warehouse_id, qpc, q_for, q_error, q_result, mon, mon_days,
                   mon_i, mon_metrics, mon_state, mon_ret, mon_raised_at,
                   mon_fetched>>

\* query_system_table lines 71-73 and the entry of the try block: without a
\* session report it and return an empty DataFrame, else go on to the cursor
QueryEnter(caller) ==
    /\ q_for' = caller
    /\ q_error' = "none"
    /\ IF sql_connection = "None"
       THEN /\ log' = log \cup {"no_sql_connection"}
            /\ q_result' = DataFrame(0)
            /\ qpc' = "done"
       ELSE /\ log' = log
            /\ q_result' = NoFrame
            /\ qpc' = "cursor"

\* a script calls query_system_table directly
QuerySystemTable ==
    /\ client = "built"
    /\ qpc = "idle"
    /\ mon_state # "fetching"
    /\ QueryEnter("direct")
    /\ UNCHANGED <<warehouse_id, client, sql_connection, remote_ops, mon,
                   mon_days, mon_i, mon_metrics, mon_state, mon_ret,
                   mon_raised_at, mon_fetched>>

\* an except branch that lets the error go on to the caller
QueryExceptReraise(stage) ==
    /\ q_error' = stage
    /\ log' = log \cup {"query_failed"}
    /\ q_result' = q_result
    /\ qpc' = "raised"

\* query_system_table lines 87-89: log the error, return pd.DataFrame()
QueryExcept(stage) ==
    /\ q_error' = stage
    /\ log' = log \cup {"query_failed"}
    /\ q_result' = DataFrame(0)
    /\ qpc' = "done"

\* line 77: cursor = self.sql_connection.cursor()
QueryCursor ==
    /\ qpc = "cursor"
    /\ remote_ops' = remote_ops \cup {"cursor"}
    /\ \/ QueryExcept("cursor")
       \/ /\ qpc' = "execute"
          /\ UNCHANGED <<q_error, q_result, log>>
    /\ UNCHANGED <<warehouse_id, client, sql_connection, q_for, mon, mon_days,
                   mon_i, mon_metrics, mon_state, mon_ret, mon_raised_at,
                   mon_fetched>>

\* line 78: cursor.execute(query)
QueryExecute ==
    /\ qpc = "execute"
    /\ remote_ops' = remote_ops \cup {"execute"}
    /\ \/ QueryExcept("execute")
       \/ /\ qpc' = "fetchall"
          /\ UNCHANGED <<q_error, q_result, log>>
    /\ UNCHANGED <<warehouse_id, client, sql_connection, q_for, mon, mon_days,
                   mon_i, mon_metrics, mon_state, mon_ret, mon_raised_at,
                   mon_fetched>>

\* lines 79-85: fetchall, column names, close, build and return the DataFrame
QueryFetch ==
    /\ qpc = "fetchall"
    /\ remote_ops' = remote_ops \cup {"fetchall"}
    /\ \/ QueryExcept("fetchall")
       \/ /\ \E n \in RowCounts : q_result' = DataFrame(n)
          /\ qpc' = "done"
          /\ UNCHANGED <<q_error, log>>
    /\ UNCHANGED <<warehouse_id, client, sql_connection, q_for, mon, mon_days,
                   mon_i, mon_metrics, mon_state, mon_ret, mon_raised_at,
                   mon_fetched>>

\* the direct caller takes the returned DataFrame
QueryReturn ==
    /\ qpc = "done"
    /\ q_for = "direct"
    /\ qpc' = "idle"
    /\ UNCHANGED <<warehouse_id, client, sql_connection, remote_ops, log,
                   q_for, q_error, q_result, mon, mon_days, mon_i, mon_metrics,
                   mon_state, mon_ret, mon_raised_at, mon_fetched>>

\* =========================================================================
\* JobMonitor.get_comprehensive_job_metrics and ClusterMonitor.get_metrics
\* =========================================================================
Monitors == {"job", "cluster"}

\* the tables a monitor fetches, in the order of its try block
MonitorTables(m) ==
    IF m = "job"
    THEN <<"runtime_metrics", "failure_analysis", "cluster_utilization">>
    ELSE <<"cluster_utilization", "node_types", "efficiency_metrics", "cost_analysis">>

\* a validation that passes the day-window on unchanged
ValidateTimeRangeIdentity(d) == d

\* BaseMonitor._validate_time_range
ValidateTimeRange(d) == IF d < 1 THEN 1 ELSE IF d > 90 THEN 90 ELSE d

\* job_monitor.py lines 24-26 / cluster_monitor.py lines 10-13: the call
\* starts with an empty `metrics`; only the cluster monitor validates `days`
MonitorGetMetrics ==
    /\ client = "built"
    /\ qpc = "idle"
    /\ mon_state # "fetching"
    /\ \E m \in Monitors, d \in DayInputs :
          /\ mon' = m
          /\ mon_days' = IF m = "cluster" THEN ValidateTimeRange(d) ELSE d
    /\ mon_i' = 1
    /\ mon_metrics' = EmptyDict
    /\ mon_state' = "fetching"
    /\ mon_ret' = EmptyDict
    /\ mon_raised_at' = "none"
    /\ mon_fetched' = {}
    /\ UNCHANGED <<warehouse_id, client, sql_connection, remote_ops, log, qpc,
                   q_for, q_error, q_result>>

\* the monitor calls the client for its next table; the client method
\* formats the SQL and calls query_system_table
MonitorFetchTable ==
    /\ mon_state = "fetching"
    /\ qpc = "idle"
    /\ mon_i <= Len(MonitorTables(mon))
    /\ QueryEnter("monitor")
    /\ UNCHANGED <<warehouse_id, client, sql_connection, remote_ops, mon,
                   mon_days, mon_i, mon_metrics, mon_state, mon_ret,
                   mon_raised_at, mon_fetched>>

\* metrics['<table>'] = <the DataFrame the client returned>
MonitorStoreTable ==
    /\ mon_state = "fetching"
    /\ qpc = "done"
    /\ q_for = "monitor"
    /\ mon_metrics' = Put(mon_metrics, MonitorTables(mon)[mon_i], q_result)
    /\ mon_fetched' = mon_fetched \cup {MonitorTables(mon)[mon_i]}
    /\ mon_i' = mon_i + 1
    /\ qpc' = "idle"
    /\ UNCHANGED <<warehouse_id, client, sql_connection, remote_ops, log,
                   q_for, q_error, q_result, mon, mon_days, mon_state, mon_ret,
                   mon_raised_at>>

\* the fetch of the next table raises inside the monitor's try block (an
\* exception that escapes the client call); the single except branch
\* (job_monitor.py lines 43-45, cluster_monitor.py lines 33-35) logs it and
\* returns {}
MonitorFetchRaises ==
    /\ mon_state = "fetching"
    /\ qpc = "idle"
    /\ mon_i <= Len(MonitorTables(mon))
    /\ mon_raised_at' = MonitorTables(mon)[mon_i]
    /\ log' = log \cup {"monitor_fetch_failed"}
    /\ mon_ret' = EmptyDict
    /\ mon_state' = "returned"
    /\ UNCHANGED <<warehouse_id, client, sql_connection, remote_ops, qpc,
                   q_for, q_error, q_result, mon, mon_days, mon_i, mon_metrics,
                   mon_fetched>>

\* `return metrics` after the last table
MonitorReturn ==
    /\ mon_state = "fetching"
    /\ qpc = "idle"
    /\ mon_i > Len(MonitorTables(mon))
    /\ mon_ret' = mon_metrics
    /\ mon_state' = "returned"
    /\ UNCHANGED <<warehouse_id, client, sql_connection, remote_ops, log, qpc,
                   q_for, q_error, q_result, mon, mon_days, mon_i, mon_metrics,
                   mon_raised_at, mon_fetched>>

MonNext ==
    \/ SetupConnections
    \/ QuerySystemTable
    \/ QueryCursor
    \/ QueryExecute
    \/ QueryFetch
    \/ QueryReturn
    \/ MonitorGetMetrics
    \/ MonitorFetchTable
    \/ MonitorStoreTable
    \/ MonitorFetchRaises
    \/ MonitorReturn

TypeOK ==
    /\ now \in 0..MaxNow
    /\ cache_lock \in Threads \cup {0}
    /\ DOMAIN cache \subseteq {CacheKey(d) : d \in DayValues}

\* =============================================== anomaly detection, alerts
\* Percentages and seconds are whole numbers; failure_rate_threshold is kept
\* in hundredths (10 stands for 0.1), so that threshold * 100 is the number.
MaxRows == 3

\* MonitoringConfig.__post_init__ defaults, and a record a caller swapped in
DefaultThresholds ==
    [cpu_utilization_threshold |-> 80, memory_utilization_threshold |-> 85,
     job_duration_threshold_minutes |-> 60, failure_rate_threshold |-> 10]

SwappedThresholds ==
    [cpu_utilization_threshold |-> 40, memory_utilization_threshold |-> 40,
     job_duration_threshold_minutes |-> 30, failure_rate_threshold |-> 20]

ThresholdChoices == {DefaultThresholds, SwappedThresholds}

\* rows of runtime_metrics, failure_analysis and efficiency_metrics
RuntimeTables ==
    {<< >>,
     <<[job_id |-> 1, avg_duration_seconds |-> 3601],
       [job_id |-> 2, avg_duration_seconds |-> 3600],
       [job_id |-> 3, avg_duration_seconds |-> 1500]>>}

FailureTables ==
    {<< >>,
     <<[job_id |-> 1, failure_rate_percent |-> 10],
       [job_id |-> 2, failure_rate_percent |-> 15],
       [job_id |-> 3, failure_rate_percent |-> 25]>>}

EfficiencyTables ==
    {<< >>,
     <<[cluster_id |-> 1, efficiency_category |-> "Underutilized"],
       [cluster_id |-> 2, efficiency_category |-> "Normal"]>>}

\* (avg_cpu_utilization, avg_memory_utilization) of a cluster_utilization row
UtilizationValues ==
    {<<15, 25>>, <<20, 30>>, <<15, 50>>, <<50, 50>>, <<85, 90>>, <<90, 50>>,
     <<50, 95>>}

UtilizationRows ==
    {[avg_cpu_utilization |-> v[1], avg_memory_utilization |-> v[2]] :
        v \in UtilizationValues}

UtilizationTables == UNION {[1..n -> UtilizationRows] : n \in 0..MaxRows}

\* what get_comprehensive_job_metrics / get_metrics return: every table, or {}
JobMetricsValues ==
    {EmptyDict} \cup
    {[runtime_metrics |-> r, failure_analysis |-> f, cluster_utilization |-> << >>] :
        r \in RuntimeTables, f \in FailureTables}

ClusterMetricsValues ==
    {EmptyDict} \cup
    {[cluster_utilization |-> u, node_types |-> << >>, efficiency_metrics |-> e,
      cost_analysis |-> << >>] : u \in UtilizationTables, e \in EfficiencyTables}

\* `name in metrics and not metrics[name].empty`
HasRows(m, name) == name \in DOMAIN m /\ Len(m[name]) > 0

RowsOf(m, name) == IF HasRows(m, name) THEN m[name] ELSE << >>

\* round(seconds / 60, 2), in hundredths of a minute
RoundedMinutes(seconds) == (2 * seconds * 100 + 60) \div 120

\* job_monitor.py line 58-61: the config is read when the call runs
IsLongRunning(row, thresholds) ==
    row.avg_duration_seconds > thresholds.job_duration_threshold_minutes * 60

\* job_monitor.py line 73-76
IsHighFailure(row, thresholds) ==
    row.failure_rate_percent > thresholds.failure_rate_threshold

\* cluster_monitor.py line 165-168
IsUnderutilized(row) ==
    row.avg_cpu_utilization < 20 /\ row.avg_memory_utilization < 30

\* cluster_monitor.py line 179-182
IsOverutilizedInclusive(row) ==
    row.avg_cpu_utilization >= 85 \/ row.avg_memory_utilization >= 90

IsOverutilized(row) ==
    row.avg_cpu_utilization > 85 \/ row.avg_memory_utilization > 90

\* JobMonitor.detect_anomalies(metrics)
JobDetect(m, thresholds) ==
    LET long == SelectSeq(RowsOf(m, "runtime_metrics"),
                          LAMBDA r : IsLongRunning(r, thresholds))
        high == SelectSeq(RowsOf(m, "failure_analysis"),
                          LAMBDA r : IsHighFailure(r, thresholds))
    IN  [long_running_jobs |->
            [i \in 1..Len(long) |->
                [job_id |-> long[i].job_id,
                 avg_duration_minutes |-> RoundedMinutes(long[i].avg_duration_seconds)]],
         high_failure_rates |->
            [i \in 1..Len(high) |->
                [job_id |-> high[i].job_id,
                 failure_rate_percent |-> high[i].failure_rate_percent]],
         resource_intensive_jobs |-> << >>,
         irregular_schedules |-> << >>]

\* ClusterMonitor.detect_anomalies(metrics)
ClusterDetect(m, thresholds) ==
    LET util == RowsOf(m, "cluster_utilization")
        eff  == RowsOf(m, "efficiency_metrics")
    IN  [underutilized_clusters |-> SelectSeq(util, IsUnderutilized),
         overutilized_clusters |-> SelectSeq(util, IsOverutilized),
         expensive_clusters |-> << >>,
         inefficient_clusters |->
            SelectSeq(eff, LAMBDA r : r.efficiency_category = "Underutilized")]

NoAnomalies == [monitor |-> "none"]
NoAlerts == [state |-> "none"]

AnomInit ==
    /\ alert_thresholds = DefaultThresholds
    /\ an_metrics \in [job_metrics : JobMetricsValues,
                       cluster_metrics : ClusterMetricsValues]
    /\ anomalies = NoAnomalies
    /\ all_alerts = NoAlerts

\* a caller assigns config.alert_thresholds between two calls
SetThresholds ==
    /\ \E th \in ThresholdChoices \ {alert_thresholds} : alert_thresholds' = th
    /\ UNCHANGED <<an_metrics, anomalies, all_alerts>>

JobDetectAnomalies ==
    /\ anomalies' = [monitor |-> "job",
                     found |-> JobDetect(an_metrics.job_metrics, alert_thresholds)]
    /\ UNCHANGED <<alert_thresholds, an_metrics, all_alerts>>

ClusterDetectAnomalies ==
    /\ anomalies' = [monitor |-> "cluster",
                     found |-> ClusterDetect(an_metrics.cluster_metrics,
                                             alert_thresholds)]
    /\ UNCHANGED <<alert_thresholds, an_metrics, all_alerts>>

\* the keys of the two `anomalies` dicts, in insertion order
JobCategories ==
    <<"long_running_jobs", "high_failure_rates", "resource_intensive_jobs",
      "irregular_schedules">>

ClusterCategories ==
    <<"underutilized_clusters", "overutilized_clusters", "expensive_clusters",
      "inefficient_clusters">>

\* metrics_collector.py line 137-142
JobSeverity(category) ==
    IF category \in {"high_failure_rates"} THEN "critical"
    ELSE IF category \in {"long_running_jobs", "resource_intensive_jobs"}
         THEN "warning"
         ELSE "info"

\* metrics_collector.py line 157-162
ClusterSeverityNoDefault(category) ==
    IF category \in {"overutilized_clusters"} THEN "critical"
    ELSE IF category \in {"underutilized_clusters", "expensive_clusters"}
         THEN "warning"
         ELSE "dropped"

ClusterSeverity(category) ==
    IF category \in {"overutilized_clusters"} THEN "critical"
    ELSE IF category \in {"underutilized_clusters", "expensive_clusters"}
         THEN "warning"
         ELSE "info"

\* the alerts of one monitor in the order the two nested loops build them
\* (the 'timestamp' field of an alert is left out)
RECURSIVE AlertsFor(_, _, _)
AlertsFor(type, found, categories) ==
    IF categories = << >> THEN << >>
    ELSE LET c == Head(categories)
         IN  [i \in 1..Len(found[c]) |->
                 [type |-> type, category |-> c, details |-> found[c][i]]]
             \o AlertsFor(type, found, Tail(categories))

SeverityOf(alert) ==
    IF alert.type = "job" THEN JobSeverity(alert.category)
    ELSE ClusterSeverity(alert.category)

\* MetricsCollector.get_alerts, from the `metrics` get_all_metrics returned
GetAlerts ==
    LET m == an_metrics
        jobAlerts ==
            IF m.job_metrics # EmptyDict
            THEN AlertsFor("job", JobDetect(m.job_metrics, alert_thresholds),
                           JobCategories)
            ELSE << >>
        clusterAlerts ==
            IF m.cluster_metrics # EmptyDict
            THEN AlertsFor("cluster",
                           ClusterDetect(m.cluster_metrics, alert_thresholds),
                           ClusterCategories)
            ELSE << >>
        alerts == jobAlerts \o clusterAlerts
    IN  /\ all_alerts' =
            [critical |-> SelectSeq(alerts, LAMBDA a : SeverityOf(a) = "critical"),
             warning |-> SelectSeq(alerts, LAMBDA a : SeverityOf(a) = "warning"),
             info |-> SelectSeq(alerts, LAMBDA a : SeverityOf(a) = "info")]
        /\ UNCHANGED <<alert_thresholds, an_metrics, anomalies>>

AnomNext ==
    \/ SetThresholds
    \/ JobDetectAnomalies
    \/ ClusterDetectAnomalies
    \/ GetAlerts

\* anomaly detection with nothing to do
AnomQuiet ==
    /\ AnomInit
    /\ an_metrics = [job_metrics |-> EmptyDict, cluster_metrics |-> EmptyDict]


\* ------------------------------------------------ steps the claims speak of
\* thread t returns the entry it read from the cache (line 29)
ReturnsFromCache(t) == pc[t] = "hit" /\ pc'[t] = "idle"

\* thread t returns the `metrics` it collected (line 67)
ReturnsFresh(t) == pc[t] \in {"shutdown", "store_ts"} /\ pc'[t] = "idle"

\* thread t enters get_all_metrics
EntersGetAllMetrics(t) == pc[t] = "idle" /\ pc'[t] \in {"valid_age", "wait_job"}

\* thread t has just submitted one task to each monitor
FansOut(t) == pc'[t] = "wait_job" /\ invoked'[t] = [job |-> 1, cluster |-> 1]

\* thread t runs the age test of _is_cache_valid (lines 242-243)
ChecksAge(t) == pc[t] = "valid_age" /\ pc'[t] # "valid_age"

\* thread t runs line 64 / line 65 / line 287
StoresCache(t) == pc[t] = "store" /\ pc'[t] = "store_ts"
StoresTimestamp(t) == pc[t] = "store_ts" /\ pc'[t] = "idle"
ClearsTimestamps(t) == pc[t] = "clear_ts" /\ pc'[t] = "idle"

KeyOf(t) == CacheKey(days[t])

FreshlyValid(key) == IsCacheValid(key, cache_timestamps, now, refresh_interval)

C2_FanOutOnlyAfterExpiry ==
    [][\A t \in Threads :
        /\ (ChecksAge(t) /\ KeyOf(t) \in DOMAIN cache_timestamps) =>
              IF now - cache_timestamps[KeyOf(t)] < refresh_interval
              THEN pc'[t] = "hit" /\ invoked'[t] = NoInvocation
              ELSE FansOut(t)
        /\ ReturnsFromCache(t) => invoked[t] = NoInvocation
        /\ ReturnsFresh(t) => invoked[t] = [job |-> 1, cluster |-> 1]
        /\ StoresTimestamp(t) => cache_timestamps'[KeyOf(t)] = now
      ]_vars

\* a call is refetching an entry that is present but older than a positive TTL
C2_Witness ==
    \E t \in Threads :
        /\ pc[t] = "wait_job"
        /\ use_cache[t]
        /\ KeyOf(t) \in DOMAIN cache_timestamps
        /\ refresh_interval > 0
        /\ now - cache_timestamps[KeyOf(t)] > 0
        /\ now - cache_timestamps[KeyOf(t)] >= refresh_interval
        /\ invoked[t] = [job |-> 1, cluster |-> 1]

\* ------------------------------------------------------------------- C3
JobFailed(t) == job_future[t]["state"] # "returned"
ClusterFailed(t) == cluster_future[t]["state"] # "returned"
InFanOut == {"wait_job", "wait_cluster", "shutdown", "store", "store_ts"}

\* C3: when both results have been collected and exactly one task raised or
\* timed out, `metrics` has both slots, the failed one is an empty dict and
\* the other is what its monitor returned; `metrics` then stays as it is
\* until it is returned, and the call never raises.
C3_OneFailureLeavesTheOther ==
    /\ [](\A t \in Threads :
            (pc[t] = "shutdown" /\ JobFailed(t) # ClusterFailed(t)) =>
               /\ {"job_metrics", "cluster_metrics"} \subseteq DOMAIN metrics[t]
               /\ JobFailed(t) =>
                     /\ metrics[t]["job_metrics"] = EmptyDict
                     /\ metrics[t]["cluster_metrics"] = cluster_future[t]["value"]
               /\ ClusterFailed(t) =>
                     /\ metrics[t]["cluster_metrics"] = EmptyDict
                     /\ metrics[t]["job_metrics"] = job_future[t]["value"])
    /\ [][\A t \in Threads :
            /\ (pc[t] \in {"shutdown", "store", "store_ts"} /\ pc'[t] # "idle")
                  => metrics'[t] = metrics[t]
            /\ pc[t] \in InFanOut => pc'[t] \in InFanOut \cup {"idle"}
         ]_vars

\* the job task raised, the cluster task returned, both have been collected
C3_Witness ==
    \E t \in Threads :
        /\ pc[t] = "shutdown"
        /\ job_future[t] = RaisedFuture
        /\ cluster_future[t] = ReturnedFuture(ClusterTables)
        /\ metrics[t]["cluster_metrics"] = ClusterTables

\* ------------------------------------------------------------------- C4
\* C4 as stated: every call that fanned out, whatever use_cache, returns
\* with the entry of its day-window being its own result, stamped now.
C4_EveryFanOutRefreshesCache ==
    [][\A t \in Threads :
        ReturnsFresh(t) =>
           /\ KeyOf(t) \in DOMAIN cache'
           /\ cache'[KeyOf(t)] = metrics[t]
           /\ KeyOf(t) \in DOMAIN cache_timestamps'
           /\ cache_timestamps'[KeyOf(t)] = now
      ]_vars

\* C4 amended: a use_cache=True call that fanned out replaces the entry of
\* its day-window by exactly its own result (nothing of the previous entry
\* survives) and stamps it with the current time; a use_cache=False call
\* that fanned out returns without touching the cache.
C4_CachingFanOutRefreshesCache ==
    [][\A t \in Threads :
        /\ StoresCache(t) =>
              /\ use_cache[t]
              /\ cache'[KeyOf(t)] = metrics[t]
        /\ (ReturnsFresh(t) /\ use_cache[t]) =>
              /\ cache'[KeyOf(t)] = metrics[t]
              /\ cache_timestamps'[KeyOf(t)] = now
        /\ (ReturnsFresh(t) /\ ~use_cache[t]) =>
              /\ cache' = cache
              /\ cache_timestamps' = cache_timestamps
      ]_vars

\* a call has just overwritten an entry whose job slot was filled with a
\* result whose job slot is empty
C4_Witness ==
    \E t \in Threads :
        /\ pc[t] = "store_ts"
        /\ KeyOf(t) \in DOMAIN cache_timestamps
        /\ metrics[t]["job_metrics"] = EmptyDict
        /\ cache[KeyOf(t)] = metrics[t]
        /\ cache[KeyOf(t)]["collection_time"] > cache_timestamps[KeyOf(t)]

\* ------------------------------------------------------------------- C5
\* C5: whenever the cache lock is free, _cache and _cache_timestamps have
\* the same keys and, under each key, the value and the timestamp were
\* written by the same store.
C5_CacheWritesAtomic ==
    cache_lock = 0 =>
        /\ DOMAIN cache = DOMAIN cache_timestamps
        /\ DOMAIN cacheWriter = DOMAIN cache
        /\ DOMAIN tsWriter = DOMAIN cache_timestamps
        /\ \A k \in DOMAIN cache : cacheWriter[k] = tsWriter[k]

\* the lock is free, one thread's entry is stored and another thread is
\* about to overwrite it
C5_Witness ==
    /\ cache_lock = 0
    /\ \E t \in Threads :
          /\ pc[t] = "store"
          /\ KeyOf(t) \in DOMAIN cache
          /\ cacheWriter[KeyOf(t)] # t
          /\ tsWriter[KeyOf(t)] # t

\* ------------------------------------------------------------------- C6
\* C6: the validity check takes the cached path exactly when
\* now - timestamp < refresh_interval (so never at an age equal to the TTL
\* and never with refresh_interval = 0), and the validity of a key changes
\* only in a step where the clock moves, a store stamps that key, or
\* clear_cache empties the timestamps.
C6_ValidWhileYoungerThanTTL ==
    [][/\ \A t \in Threads :
            (ChecksAge(t) /\ KeyOf(t) \in DOMAIN cache_timestamps) =>
               /\ pc'[t] = "hit" <=> now - cache_timestamps[KeyOf(t)] < refresh_interval
               /\ now - cache_timestamps[KeyOf(t)] = refresh_interval => pc'[t] # "hit"
               /\ refresh_interval = 0 => pc'[t] # "hit"
       /\ \A d \in DayValues :
            (FreshlyValid(CacheKey(d))' # FreshlyValid(CacheKey(d))) =>
               \/ now' # now
               \/ \E t \in Threads : StoresTimestamp(t) /\ KeyOf(t) = CacheKey(d)
               \/ \E t \in Threads : ClearsTimestamps(t)
      ]_vars

\* a call found an entry whose age equals the positive TTL and is refetching
C6_Witness ==
    \E t \in Threads :
        /\ pc[t] = "wait_job"
        /\ use_cache[t]
        /\ refresh_interval > 0
        /\ KeyOf(t) \in DOMAIN cache_timestamps
        /\ metrics[t]["collection_time"] - cache_timestamps[KeyOf(t)] = refresh_interval

C8_NoWarehouseNoRemoteCall ==
    (client = "built" /\ warehouse_id = "") =>
        /\ sql_connection = "None"
        /\ remote_ops = {}
        /\ qpc \in {"idle", "done"}
        /\ qpc = "done" =>
              /\ q_result = DataFrame(0)
              /\ q_error = "none"
              /\ "no_sql_connection" \in log

\* a monitor's query on a client without warehouse id has just returned
C8_Witness ==
    /\ client = "built"
    /\ warehouse_id = ""
    /\ qpc = "done"
    /\ q_for = "monitor"
    /\ "no_sql_connection" \in log

\* ------------------------------------------------------------------- C9
\* C9 as stated: a failure while the session is opened in the constructor
\* is caught there; the caller gets a client whose queries return empty
\* results.
C9_SetupFailureNotPropagated ==
    "setup_failed" \in log => (client = "built" /\ sql_connection = "None")

\* C9 amended: a failure while the session is opened in the constructor is
\* logged and raised again to the caller of SystemTablesClient(config): no
\* client is built, so no query ever runs after it; a built client had no
\* set-up failure.
C9_SetupFailureReraised ==
    /\ "setup_failed" \in log =>
          /\ client = "raised"
          /\ sql_connection = "None"
          /\ qpc = "idle"
          /\ mon_state = "idle"
          /\ remote_ops \subseteq {"connect"}
    /\ client = "raised" => "setup_failed" \in log

\* sql.connect was attempted and the constructor raised
C9_Witness ==
    /\ client = "raised"
    /\ "connect" \in remote_ops
    /\ "setup_failed" \in log

\* ------------------------------------------------------------------ C10
\* C10: when the fetch of one table raises, the monitor still fetches the
\* remaining tables and returns a mapping that holds every table whose
\* fetch succeeded.
C10_TablesFetchedIndependently ==
    (mon_state = "returned" /\ mon_raised_at # "none") =>
        /\ mon_fetched \subseteq DOMAIN mon_ret
        /\ DOMAIN mon_ret =
              {MonitorTables(mon)[i] : i \in 1..Len(MonitorTables(mon))}
                  \ {mon_raised_at}

\* ------------------------------------------------------------------ C11
\* a detect_anomalies call has just returned
JobDetects == anomalies' # anomalies /\ anomalies'.monitor = "job"
ClusterDetects == anomalies' # anomalies /\ anomalies'.monitor = "cluster"

Range(s) == {s[i] : i \in 1..Len(s)}

\* C11: detect_anomalies of both monitors classifies against the thresholds
\* alert_thresholds holds when the call runs: the Job monitor reports the
\* rows above job_duration_threshold_minutes and failure_rate_threshold, the
\* Cluster monitor reports as overutilized the rows above
\* cpu_utilization_threshold or memory_utilization_threshold; no threshold
\* is a number written into the monitor.
C11_ThresholdsReadAtCallTime ==
    [][/\ JobDetects =>
            LET m == an_metrics.job_metrics
                found == anomalies'.found
            IN  /\ {a.job_id : a \in Range(found.long_running_jobs)} =
                   {r.job_id : r \in
                       {x \in Range(RowsOf(m, "runtime_metrics")) :
                           x.avg_duration_seconds >
                           alert_thresholds.job_duration_threshold_minutes * 60}}
                /\ {a.job_id : a \in Range(found.high_failure_rates)} =
                   {r.job_id : r \in
                       {x \in Range(RowsOf(m, "failure_analysis")) :
                           x.failure_rate_percent >
                           alert_thresholds.failure_rate_threshold}}
       /\ ClusterDetects =>
            LET m == an_metrics.cluster_metrics
                found == anomalies'.found
            IN  Range(found.overutilized_clusters) =
                {x \in Range(RowsOf(m, "cluster_utilization")) :
                    \/ x.avg_cpu_utilization >
                       alert_thresholds.cpu_utilization_threshold
                    \/ x.avg_memory_utilization >
                       alert_thresholds.memory_utilization_threshold}
      ]_vars

\* ------------------------------------------------------------------ C12
\* number of entries of list s that equal row r
CountOf(s, r) == Cardinality({i \in 1..Len(s) : s[i] = r})

\* C12: ClusterMonitor.detect_anomalies puts a cluster_utilization row into
\* underutilized_clusters iff avg CPU < 20 and avg memory < 30, and into
\* overutilized_clusters iff avg CPU > 85 or avg memory > 90, once per row;
\* (15,25) is underutilized, CPU 90 is overutilized, (50,50) is in neither.
C12_ClusterClassification ==
    anomalies.monitor = "cluster" =>
        LET util == RowsOf(an_metrics.cluster_metrics, "cluster_utilization")
            under == anomalies.found.underutilized_clusters
            over == anomalies.found.overutilized_clusters
        IN  /\ \A r \in UtilizationRows :
                LET cpu == r.avg_cpu_utilization
                    mem == r.avg_memory_utilization
                IN  /\ CountOf(under, r) =
                         IF cpu < 20 /\ mem < 30 THEN CountOf(util, r) ELSE 0
                    /\ CountOf(over, r) =
                         IF cpu > 85 \/ mem > 90 THEN CountOf(util, r) ELSE 0
            /\ Range(under) \cup Range(over) \subseteq Range(util)
            /\ \A r \in Range(util) :
                /\ (r.avg_cpu_utilization = 15 /\ r.avg_memory_utilization = 25)
                      => r \in Range(under) /\ r \notin Range(over)
                /\ r.avg_cpu_utilization = 90
                      => r \in Range(over) /\ r \notin Range(under)
                /\ (r.avg_cpu_utilization = 50 /\ r.avg_memory_utilization = 50)
                      => r \notin Range(under) /\ r \notin Range(over)

\* a call classified the three rows the claim names, and the boundary row
C12_Witness ==
    /\ anomalies.monitor = "cluster"
    /\ an_metrics.cluster_metrics # EmptyDict
    /\ LET util == an_metrics.cluster_metrics.cluster_utilization
       IN  /\ Len(util) = 3
           /\ util[1] = [avg_cpu_utilization |-> 15, avg_memory_utilization |-> 25]
           /\ util[2] = [avg_cpu_utilization |-> 90, avg_memory_utilization |-> 50]
           /\ util[3] = [avg_cpu_utilization |-> 50, avg_memory_utilization |-> 50]
    /\ Len(anomalies.found.underutilized_clusters) = 1
    /\ Len(anomalies.found.overutilized_clusters) = 1

\* ------------------------------------------------------------------ C13
\* a get_alerts call has just returned
GetsAlerts == all_alerts' # all_alerts

\* the anomalies the monitors report to a get_alerts call that runs now
ReportedAnomalies(type) ==
    IF type = "job"
    THEN IF an_metrics.job_metrics # EmptyDict
         THEN JobDetect(an_metrics.job_metrics, alert_thresholds)
         ELSE [c \in Range(JobCategories) |-> << >>]
    ELSE IF an_metrics.cluster_metrics # EmptyDict
         THEN ClusterDetect(an_metrics.cluster_metrics, alert_thresholds)
         ELSE [c \in Range(ClusterCategories) |-> << >>]

\* the bucket the claim's table gives a category
BucketOfCategory(category) ==
    IF category \in {"high_failure_rates", "overutilized_clusters"}
    THEN "critical"
    ELSE IF category \in {"long_running_jobs", "resource_intensive_jobs",
                          "underutilized_clusters", "expensive_clusters"}
         THEN "warning"
         ELSE "info"

TotalLen(f) ==
    LET RECURSIVE Sum(_)
        Sum(S) == IF S = {} THEN 0
                  ELSE LET x == CHOOSE y \in S : TRUE
                       IN  Len(f[x]) + Sum(S \ {x})
    IN  Sum(DOMAIN f)

\* C13: get_alerts turns every anomaly either monitor reports into exactly
\* one alert, in exactly one of critical/warning/info, the bucket its
\* category maps to (any category outside the table goes to info); the
\* number of alerts is the number of anomalies.
C13_OneAlertPerAnomaly ==
    [][GetsAlerts =>
        /\ \A type \in {"job", "cluster"} :
            LET found == ReportedAnomalies(type)
            IN  \A c \in DOMAIN found :
                \A b \in {"critical", "warning", "info"} :
                    LET mine == SelectSeq(all_alerts'[b],
                                    LAMBDA a : a.type = type /\ a.category = c)
                    IN  IF b = BucketOfCategory(c)
                        THEN [i \in 1..Len(mine) |-> mine[i].details] = found[c]
                        ELSE mine = << >>
        /\ TotalLen(all_alerts') =
               TotalLen(ReportedAnomalies("job")) +
               TotalLen(ReportedAnomalies("cluster"))
      ]_vars

\* a call filled all three buckets, the info bucket from a category outside
\* the table
C13_Witness ==
    /\ all_alerts # NoAlerts
    /\ \E i \in 1..Len(all_alerts.critical) :
           all_alerts.critical[i].category = "high_failure_rates"
    /\ \E i \in 1..Len(all_alerts.critical) :
           all_alerts.critical[i].category = "overutilized_clusters"
    /\ \E i \in 1..Len(all_alerts.warning) :
           all_alerts.warning[i].category = "long_running_jobs"
    /\ \E i \in 1..Len(all_alerts.warning) :
           all_alerts.warning[i].category = "underutilized_clusters"
    /\ \E i \in 1..Len(all_alerts.info) :
           all_alerts.info[i].category = "inefficient_clusters"

\* ========================================================== overall health
\* avg_success_rate and avg_cpu_utilization are whole percentages; the score
\* is kept in half points and the ratio in hundredths.
RateValues == {0, 85, 86, 90, 95, 96, 97, 100}
CpuValues == {0, 9, 10, 15, 19, 20, 50, 80, 81, 90, 91, 95, 100}

\* the `summary` get_summary_statistics hands over (line 73-109): job_stats
\* and cluster_stats with or without the key of their signal
JobStatsValues ==
    {EmptyDict} \cup {[avg_success_rate |-> r] : r \in RateValues}

ClusterStatsValues ==
    {EmptyDict} \cup {[avg_cpu_utilization |-> c] : c \in CpuValues}

\* line 254-257, in half points
SuccessPoints(rate) ==
    IF rate > 95 THEN 2 ELSE IF rate > 85 THEN 1 ELSE 0

\* line 264-267, in half points
CpuPointsExclusive(cpu) ==
    IF 20 < cpu /\ cpu < 80 THEN 2
    ELSE IF 10 < cpu /\ cpu < 90 THEN 1 ELSE 0

CpuPoints(cpu) ==
    IF 20 <= cpu /\ cpu <= 80 THEN 2
    ELSE IF 10 <= cpu /\ cpu <= 90 THEN 1 ELSE 0

\* buckets that call half of the points 'good'
HealthBucketGoodFromHalf(halfPoints, max_score) ==
    LET health_ratio == (halfPoints * 50) \div max_score
    IN  IF health_ratio >= 80 THEN "excellent"
        ELSE IF health_ratio >= 50 THEN "good"
        ELSE IF health_ratio >= 40 THEN "fair"
        ELSE "poor"

\* line 272-281: health_score / max_score against 0.8, 0.6, 0.4
HealthBucket(halfPoints, max_score) ==
    LET health_ratio == (halfPoints * 50) \div max_score
    IN  IF health_ratio >= 80 THEN "excellent"
        ELSE IF health_ratio >= 60 THEN "good"
        ELSE IF health_ratio >= 40 THEN "fair"
        ELSE "poor"

\* MetricsCollector._assess_overall_health(summary)
AssessHealth(s) ==
    LET hasRate == "avg_success_rate" \in DOMAIN s.job_stats
        hasCpu == "avg_cpu_utilization" \in DOMAIN s.cluster_stats
        max_score == (IF hasRate THEN 1 ELSE 0) + (IF hasCpu THEN 1 ELSE 0)
        health_score ==
            (IF hasRate THEN SuccessPoints(s.job_stats.avg_success_rate) ELSE 0)
          + (IF hasCpu THEN CpuPoints(s.cluster_stats.avg_cpu_utilization) ELSE 0)
    IN  IF max_score = 0 THEN "unknown"
        ELSE HealthBucket(health_score, max_score)

HealthInit ==
    /\ hl_summary \in [job_stats : JobStatsValues,
                       cluster_stats : ClusterStatsValues]
    /\ overall_health = "unassessed"

\* summary['overall_health'] = self._assess_overall_health(summary), line 109
AssessOverallHealth ==
    /\ overall_health' = AssessHealth(hl_summary)
    /\ UNCHANGED hl_summary

HealthNext == AssessOverallHealth

HealthQuiet ==
    /\ HealthInit
    /\ hl_summary = [job_stats |-> EmptyDict, cluster_stats |-> EmptyDict]

\* ------------------------------------------------------------------ C14
\* the claim's signals, in points
ClaimedRatePoints2(rate) ==
    IF rate > 95 THEN 2 ELSE IF 85 < rate /\ rate <= 95 THEN 1 ELSE 0

ClaimedCpuPoints2(cpu) ==
    IF 20 <= cpu /\ cpu <= 80 THEN 2
    ELSE IF (10 <= cpu /\ cpu < 20) \/ (80 < cpu /\ cpu <= 90) THEN 1 ELSE 0

\* C14: overall health is points / number of applicable signals (success
\* rate: 1 above 95, 0.5 in (85, 95], else 0; CPU: 1 in [20, 80], 0.5 in
\* [10, 90] outside that band, else 0), mapped to excellent (>= 0.8), good
\* (>= 0.6), fair (>= 0.4), poor (< 0.4), and 'unknown' exactly when no
\* signal is applicable; (97, 50) is excellent, (90, 95) is 0.25 and poor.
C14_HealthBuckets ==
    overall_health # "unassessed" =>
        LET js == hl_summary.job_stats
            cs == hl_summary.cluster_stats
            hasRate == "avg_success_rate" \in DOMAIN js
            hasCpu == "avg_cpu_utilization" \in DOMAIN cs
            n == (IF hasRate THEN 1 ELSE 0) + (IF hasCpu THEN 1 ELSE 0)
            points2 == (IF hasRate THEN ClaimedRatePoints2(js.avg_success_rate) ELSE 0)
                     + (IF hasCpu THEN ClaimedCpuPoints2(cs.avg_cpu_utilization) ELSE 0)
        IN  /\ (overall_health = "unknown") <=> (n = 0)
            /\ n > 0 =>
                \* points2 / (2 n) against 0.8, 0.6, 0.4, cross-multiplied
                /\ (overall_health = "excellent") <=> (10 * points2 >= 16 * n)
                /\ (overall_health = "good") <=>
                       (10 * points2 >= 12 * n /\ 10 * points2 < 16 * n)
                /\ (overall_health = "fair") <=>
                       (10 * points2 >= 8 * n /\ 10 * points2 < 12 * n)
                /\ (overall_health = "poor") <=> (10 * points2 < 8 * n)
            /\ (hasRate /\ hasCpu /\ js.avg_success_rate = 97
                    /\ cs.avg_cpu_utilization = 50) => overall_health = "excellent"
            /\ (hasRate /\ hasCpu /\ js.avg_success_rate = 90
                    /\ cs.avg_cpu_utilization = 95)
                  => points2 * 2 = n /\ overall_health = "poor"

\* the assessment of (90, 95): 0.5 + 0 points over two signals
C14_Witness ==
    /\ overall_health = "poor"
    /\ hl_summary = [job_stats |-> [avg_success_rate |-> 90],
                     cluster_stats |-> [avg_cpu_utilization |-> 95]]

\* ============================================ report-producing entry points
\* run_local_monitoring.main, job_performance_analysis.main, utils.main,
\* working_monitor.main and ClusterPerformanceAnalyzer (main, run_analysis).
EntryPoints ==
    {"run_local_monitoring", "job_performance_analysis", "utils_main",
     "working_monitor", "cluster_performance_analysis"}

\* the two that fetch the job metrics themselves before asking for the report
FetchingEntryPoints == {"run_local_monitoring", "job_performance_analysis"}

\* DATABRICKS_HOST, DATABRICKS_TOKEN, DATABRICKS_WAREHOUSE_ID: set or not
ConfigValues == [host : BOOLEAN, token : BOOLEAN, warehouse_id : BOOLEAN]

\* the query templates of the client, of working_monitor and of the analyzer
JobTemplates ==
    <<"job_runtime_metrics", "job_failure_analysis", "cluster_cpu_utilization">>

PrecheckTemplates == {"simple_job_data", "table_schema", "recent_job_activity"}

WorkingTemplates ==
    {"wm_job_runtime_metrics", "wm_job_failure_analysis",
     "wm_cluster_utilization", "wm_recent_job_activity"}

AnalyzerTemplates ==
    {"show_schemas", "show_tables", "describe_node_timeline",
     "cluster_utilization_data", "cluster_basic_info"}

QueryTemplates ==
    {"select_1"} \cup Range(JobTemplates) \cup PrecheckTemplates
        \cup WorkingTemplates \cup AnalyzerTemplates

\* a table some query returned: no rows (also after a failure), or rows
NoRows == << >>
SomeRows == <<[row |-> 1]>>
QueryResults == {NoRows, SomeRows}

\* what a query gives: without a session nothing is sent and the table is
\* empty (query_system_table line 71-73)
ResultsOver(sql) == IF sql = "open" THEN QueryResults ELSE {NoRows}

CpuTables ==
    {<< >>, <<[avg_cpu_utilization |-> 50, avg_memory_utilization |-> 50]>>}

\* cursor.execute ran once more for each template of S
Bump(ex, S, sql) ==
    [q \in QueryTemplates |-> IF q \in S /\ sql = "open" THEN ex[q] + 1 ELSE ex[q]]

\* JobMonitor.get_comprehensive_job_metrics: the three tables, or {} when a
\* fetch raised after `ran` templates had run
JobFetchOutcomes(sql) ==
    IF sql = "open"
    THEN {[metrics |-> [runtime_metrics |-> r, failure_analysis |-> f,
                        cluster_utilization |-> c],
           ran |-> Range(JobTemplates)] :
              r \in RuntimeTables, f \in FailureTables, c \in CpuTables}
         \cup
         {[metrics |-> EmptyDict, ran |-> {JobTemplates[i] : i \in 1..k}] :
              k \in 0..(Len(JobTemplates) - 1)}
    ELSE {[metrics |-> [runtime_metrics |-> << >>, failure_analysis |-> << >>,
                        cluster_utilization |-> << >>],
           ran |-> {}]}

\* no table of m has a row
AllEmpty(m) == \A name \in DOMAIN m : Len(m[name]) = 0

NoReport == [kind |-> "none"]

\* the text JobMonitor.generate_monitoring_report builds from `metrics`
\* (line 94-151): for each section whether it has content, only its header,
\* a placeholder, or is left out
JobReport(m) ==
    LET found == JobDetect(m, DefaultThresholds)
        detail(name) == IF HasRows(m, name) THEN "content" ELSE "omitted"
    IN  [kind |-> "job_monitoring_report",
         sections |->
            [summary_statistics |->
                IF \E name \in DOMAIN m : HasRows(m, name)
                THEN "content" ELSE "header_only",
             detected_anomalies |->
                IF found.long_running_jobs # << >> \/ found.high_failure_rates # << >>
                THEN "content" ELSE "header_only",
             job_runtime_details |-> detail("runtime_metrics"),
             job_failure_analysis |-> detail("failure_analysis"),
             cluster_utilization |-> detail("cluster_utilization")],
         data_sections |->
            {"summary_statistics", "detected_anomalies", "job_runtime_details",
             "job_failure_analysis", "cluster_utilization"},
         inputs_empty |-> AllEmpty(m)]

\* the file working_monitor.save_detailed_report writes (line 215-255)
DetailedReport(t) ==
    LET detail(name) == IF Len(t[name]) > 0 THEN "content" ELSE "omitted"
    IN  [kind |-> "databricks_monitoring_report",
         sections |->
            [summary |-> "content",
             job_runtime_metrics |-> detail("runtime_df"),
             job_failure_analysis |-> detail("failure_df"),
             cluster_utilization |-> detail("cluster_df"),
             recent_job_activity |-> detail("activity_df")],
         data_sections |->
            {"job_runtime_metrics", "job_failure_analysis",
             "cluster_utilization", "recent_job_activity"},
         inputs_empty |-> AllEmpty(t)]

\* the file ClusterPerformanceAnalyzer.save_report writes (line 279-480);
\* issues and recommendations are never empty lists when run_analysis calls it
AnalyzerReport(cluster_data) ==
    LET table == IF Len(cluster_data) > 0 THEN "content" ELSE "placeholder"
    IN  [kind |-> "cluster_performance_report",
         sections |->
            [key_metrics |-> table, top_consumers |-> table,
             performance_issues |-> "content", recommendations |-> "content",
             detailed_metrics |-> table],
         data_sections |-> {"key_metrics", "top_consumers", "detailed_metrics"},
         inputs_empty |-> Len(cluster_data) = 0]

WorkingTables == {"runtime_df", "failure_df", "cluster_df", "activity_df"}

ReportInit ==
    /\ ep \in EntryPoints
    /\ ep_config \in ConfigValues
    /\ ep_pc = "load_config"
    /\ ep_sql = "None"
    /\ ep_checked = FALSE
    /\ ep_metrics = EmptyDict
    /\ executed = [q \in QueryTemplates |-> 0]
    /\ report = NoReport
    /\ files = {}

\* the configuration test at the start of each entry point
ConfigAccepted(e, c) ==
    CASE e \in FetchingEntryPoints \cup {"utils_main"} -> c.host /\ c.token
      [] e = "working_monitor" -> c.host /\ c.token /\ c.warehouse_id
      [] e = "cluster_performance_analysis" -> TRUE

LoadConfiguration ==
    /\ ep_pc = "load_config"
    /\ ep_pc' = IF ConfigAccepted(ep, ep_config) THEN "setup" ELSE "aborted"
    /\ UNCHANGED <<ep, ep_config, ep_sql, ep_checked, ep_metrics, executed,
                   report, files>>

\* SystemTablesClient(config), or sql.connect in working_monitor: the remote
\* side may refuse; a session opens only towards a host with a token
SetupClient ==
    /\ ep_pc = "setup"
    /\ \/ /\ ep_pc' = "aborted"
          /\ UNCHANGED <<ep_sql, ep_checked>>
       \/ /\ ep_config.warehouse_id => ep_config.host /\ ep_config.token
          /\ ep_sql' = IF ep_config.warehouse_id THEN "open" ELSE "None"
          /\ ep_pc' = CASE ep \in FetchingEntryPoints -> "test_connection"
                        [] ep = "utils_main" -> "generate"
                        [] ep = "working_monitor" -> "fetch"
                        [] ep = "cluster_performance_analysis" -> "available"
          /\ ep_checked' = (ep \in {"utils_main", "working_monitor"})
    /\ UNCHANGED <<ep, ep_config, ep_metrics, executed, report, files>>

\* system_client.test_connection() and the return False after it
TestConnection ==
    /\ ep_pc = "test_connection"
    /\ \/ /\ ep_sql = "None"
          /\ ep_pc' = "aborted"
          /\ UNCHANGED <<executed, ep_checked>>
       \/ /\ ep_sql = "open"
          /\ executed' = Bump(executed, {"select_1"}, ep_sql)
          /\ \/ ep_pc' = "aborted" /\ UNCHANGED ep_checked
             \/ ep_pc' = "prechecks" /\ ep_checked' = TRUE
    /\ UNCHANGED <<ep, ep_config, ep_sql, ep_metrics, report, files>>

\* the data checks before the monitor is built
Prechecks ==
    /\ ep_pc = "prechecks"
    /\ \E simple_job_data \in ResultsOver(ep_sql) :
          executed' =
              Bump(executed,
                   {"simple_job_data", "recent_job_activity"} \cup
                   (IF ep = "job_performance_analysis" \/ simple_job_data = NoRows
                    THEN {"table_schema"} ELSE {}),
                   ep_sql)
    /\ ep_pc' = "fetch"
    /\ UNCHANGED <<ep, ep_config, ep_sql, ep_checked, ep_metrics, report, files>>

\* metrics = job_monitor.get_comprehensive_job_metrics(days=7)
FetchJobMetrics ==
    /\ ep_pc = "fetch"
    /\ ep \in FetchingEntryPoints
    /\ \E o \in JobFetchOutcomes(ep_sql) :
          /\ ep_metrics' = o.metrics
          /\ executed' = Bump(executed, o.ran, ep_sql)
    /\ ep_pc' = "generate"
    /\ UNCHANGED <<ep, ep_config, ep_sql, ep_checked, report, files>>

\* working_monitor.main line 274-283
FetchWorkingTables ==
    /\ ep_pc = "fetch"
    /\ ep = "working_monitor"
    /\ ep_metrics' \in [WorkingTables -> ResultsOver(ep_sql)]
    /\ executed' = Bump(executed, WorkingTemplates, ep_sql)
    /\ ep_pc' = "save"
    /\ UNCHANGED <<ep, ep_config, ep_sql, ep_checked, report, files>>

\* report = job_monitor.generate_monitoring_report(days=7): the method
\* fetches the metrics itself (line 91) and renders them
GenerateMonitoringReport ==
    /\ ep_pc = "generate"
    /\ \E o \in JobFetchOutcomes(ep_sql) :
          /\ report' = JobReport(o.metrics)
          /\ executed' = Bump(executed, o.ran, ep_sql)
    /\ ep_pc' = "write"
    /\ UNCHANGED <<ep, ep_config, ep_sql, ep_checked, ep_metrics, files>>

\* with open(report_filename, 'w') as f: f.write(report)
WriteReport ==
    /\ ep_pc = "write"
    /\ files' = files \cup {[by |-> ep, holds |-> report]}
    /\ ep_pc' = "done"
    /\ UNCHANGED <<ep, ep_config, ep_sql, ep_checked, ep_metrics, executed, report>>

\* working_monitor.save_detailed_report
SaveDetailedReport ==
    /\ ep_pc = "save"
    /\ ep = "working_monitor"
    /\ report' = DetailedReport(ep_metrics)
    /\ files' = files \cup {[by |-> ep, holds |-> report']}
    /\ ep_pc' = "done"
    /\ UNCHANGED <<ep, ep_config, ep_sql, ep_checked, ep_metrics, executed>>

\* ClusterPerformanceAnalyzer.get_available_cluster_data and the return of
\* run_analysis at line 184-186
GetAvailableClusterData ==
    /\ ep_pc = "available"
    /\ \/ /\ executed' = Bump(executed, {"show_schemas"}, ep_sql)
          /\ ep_pc' = "done"
          /\ UNCHANGED ep_checked
       \/ /\ ep_sql = "open"
          /\ executed' = Bump(executed, {"show_schemas", "show_tables"}, ep_sql)
          /\ ep_pc' = "done"
          /\ UNCHANGED ep_checked
       \/ /\ ep_sql = "open"
          /\ executed' = Bump(executed, {"show_schemas", "show_tables",
                                         "describe_node_timeline"}, ep_sql)
          \* DESCRIBE failed: the empty frame has no column 'col_name' (line 72)
          /\ \/ ep_pc' = "aborted" /\ UNCHANGED ep_checked
             \/ ep_pc' = "utilization" /\ ep_checked' = TRUE
    /\ UNCHANGED <<ep, ep_config, ep_sql, ep_metrics, report, files>>

\* run_analysis line 190-198
GetClusterUtilizationData ==
    /\ ep_pc = "utilization"
    /\ executed' = Bump(executed, {"cluster_utilization_data"}, ep_sql)
    /\ \E cluster_data \in ResultsOver(ep_sql) :
          /\ ep_metrics' = [cluster_data |-> cluster_data]
          /\ ep_pc' = IF cluster_data = NoRows THEN "done" ELSE "save"
    /\ UNCHANGED <<ep, ep_config, ep_sql, ep_checked, report, files>>

\* run_analysis line 204-246: cluster info, issues, recommendations, save_report
SaveAnalyzerReport ==
    /\ ep_pc = "save"
    /\ ep = "cluster_performance_analysis"
    /\ executed' = Bump(executed, {"cluster_basic_info"}, ep_sql)
    /\ report' = AnalyzerReport(ep_metrics.cluster_data)
    /\ files' = files \cup {[by |-> ep, holds |-> report']}
    /\ ep_pc' = "done"
    /\ UNCHANGED <<ep, ep_config, ep_sql, ep_checked, ep_metrics>>

ReportNext ==
    \/ LoadConfiguration
    \/ SetupClient
    \/ TestConnection
    \/ Prechecks
    \/ FetchJobMetrics
    \/ FetchWorkingTables
    \/ GenerateMonitoringReport
    \/ WriteReport
    \/ SaveDetailedReport
    \/ GetAvailableClusterData
    \/ GetClusterUtilizationData
    \/ SaveAnalyzerReport

ReportQuiet ==
    /\ ReportInit
    /\ ep = "utils_main"
    /\ ep_config = [host |-> TRUE, token |-> TRUE, warehouse_id |-> TRUE]

\* ------------------------------------------------------------------ C15
\* C15: generating a monitor's report issues no query of its own, so an
\* entry point that fetches the metrics and then generates the report has
\* executed every query template at most once.
C15_ReportNeverRequeries ==
    \A q \in QueryTemplates : executed[q] <= 1

\* ------------------------------------------------------------------ C16
ConfigComplete == ep_config.host /\ ep_config.token /\ ep_config.warehouse_id

\* C16: when host, token or warehouse id is missing, every entry point stops
\* at startup: it issues no query and writes no report file.
C16_IncompleteConfigAborts ==
    ~ConfigComplete =>
        /\ files = {}
        /\ \A q \in QueryTemplates : executed[q] = 0

\* ------------------------------------------------------------------ C17
\* C17: an entry point that is past its configuration and connection checks
\* ends with a report file written, whatever tables came back empty or
\* failed.
C17_ReportAlwaysWritten ==
    (ep_checked /\ ep_pc \in {"done", "aborted"}) => files # {}

\* ------------------------------------------------------------------ C18
\* C18: a report rendered from entirely empty metrics shows a 'no data
\* available' placeholder for every data section; none is left out or left
\* with its header only.
C18_EmptyReportHasPlaceholders ==
    (report # NoReport /\ report.inputs_empty) =>
        \A s \in report.data_sections : report.sections[s] = "placeholder"

\* ===================================================== export_metrics_to_csv
\* The clock runs in half seconds, the timestamp of a file name has whole
\* seconds ('%Y%m%d_%H%M%S').
MaxExports == 2
MaxHalfSeconds == 3

\* the tables of the `metrics` get_all_metrics returns to an export call
JobExportValues ==
    {EmptyDict} \cup
    {[runtime_metrics |-> DataFrame(a), failure_analysis |-> DataFrame(b),
      cluster_utilization |-> DataFrame(0)] : a \in RowCounts, b \in RowCounts}

ClusterExportValues ==
    {EmptyDict} \cup
    {[cluster_utilization |-> DataFrame(a), node_types |-> DataFrame(0),
      efficiency_metrics |-> DataFrame(0), cost_analysis |-> DataFrame(b)] :
         a \in RowCounts, b \in RowCounts}

\* the order in which the two dicts are iterated
JobExportOrder == <<"runtime_metrics", "failure_analysis", "cluster_utilization">>
ClusterExportOrder ==
    <<"cluster_utilization", "node_types", "efficiency_metrics", "cost_analysis">>

\* datetime.now().strftime('%Y%m%d_%H%M%S')
Timestamp(halfSeconds) == halfSeconds \div 2

\* `isinstance(df, pd.DataFrame) and not df.empty`
ShouldExportAny(df) == TRUE

ShouldExport(df) == df.rows > 0

\* df.to_csv(filepath, index=False): the header line and one line per row
ToCsv(df) == [kind |-> "csv", lines |-> 1 + df.rows]

\* f"{prefix}_{metric_name}_{timestamp}.csv" under output_dir
CsvPath(prefix, metric_name, timestamp) == <<prefix, metric_name, timestamp, "csv">>

\* f"monitoring_summary_{timestamp}.json" under output_dir
SummaryPath(timestamp) == <<"monitoring", "summary", timestamp, "json">>

\* the writes of one of the two loops (line 205-210, 214-219), in order
RECURSIVE CsvWrites(_, _, _, _)
CsvWrites(prefix, tables, order, timestamp) ==
    IF order = << >> THEN << >>
    ELSE LET name == Head(order)
             rest == CsvWrites(prefix, tables, Tail(order), timestamp)
         IN  IF name \in DOMAIN tables /\ ShouldExport(tables[name])
             THEN <<[key |-> <<prefix, name>>,
                     path |-> CsvPath(prefix, name, timestamp),
                     content |-> ToCsv(tables[name])]>> \o rest
             ELSE rest

\* the directory after the writes ws, a later write replacing an earlier one
RECURSIVE WriteAll(_, _)
WriteAll(dir, ws) ==
    IF ws = << >> THEN dir
    ELSE WriteAll(Put(dir, Head(ws).path, Head(ws).content), Tail(ws))

ExportInit ==
    /\ ex_now = 0
    /\ ex_calls = 0
    /\ ex_metrics = [job_metrics |-> EmptyDict, cluster_metrics |-> EmptyDict]
    /\ ex_writes = << >>
    /\ exported_files = EmptyDict
    /\ out_dir = EmptyDict

ExportTick ==
    /\ ex_now < MaxHalfSeconds
    /\ ex_now' = ex_now + 1
    /\ UNCHANGED <<ex_calls, ex_metrics, ex_writes, exported_files, out_dir>>

\* MetricsCollector.export_metrics_to_csv(days, output_dir)
ExportMetricsToCsv ==
    /\ ex_calls < MaxExports
    /\ ex_calls' = ex_calls + 1
    /\ \E jm \in JobExportValues, cm \in ClusterExportValues :
          LET timestamp == Timestamp(ex_now)
              ws == CsvWrites("job", jm, JobExportOrder, timestamp)
                    \o CsvWrites("cluster", cm, ClusterExportOrder, timestamp)
                    \o <<[key |-> <<"summary">>,
                          path |-> SummaryPath(timestamp),
                          content |-> [kind |-> "json"]]>>
          IN  /\ ex_metrics' = [job_metrics |-> jm, cluster_metrics |-> cm]
              /\ ex_writes' = ws
              /\ exported_files' =
                    [k \in {ws[i].key : i \in 1..Len(ws)} |->
                        (CHOOSE w \in Range(ws) : w.key = k).path]
              /\ out_dir' = WriteAll(out_dir, ws)
    /\ UNCHANGED ex_now

ExportNext ==
    \/ ExportTick
    \/ ExportMetricsToCsv

ExportQuiet == ExportInit

\* ------------------------------------------------------------------ C19, C20
\* a step that is a call of export_metrics_to_csv
Exports == ex_calls' = ex_calls + 1

\* the tables of a metrics set, each under its (prefix, name) key
TableKeys(m) ==
    {<<"job", n>> : n \in DOMAIN m.job_metrics}
        \cup {<<"cluster", n>> : n \in DOMAIN m.cluster_metrics}

TableOf(m, k) ==
    IF k[1] = "job" THEN m.job_metrics[k[2]] ELSE m.cluster_metrics[k[2]]

NonEmptyKeys(m) == {k \in TableKeys(m) : TableOf(m, k).rows > 0}

WritesOf(ws, k) == {i \in 1..Len(ws) : ws[i].key = k}

\* C19: after an export call, the call has written exactly one CSV file for
\* every non-empty table of the metrics it collected, with as many data rows
\* as the table, no CSV file for an empty table, and exactly one JSON summary;
\* the files are distinct and are in the output directory.
C19_OneCsvPerNonEmptyTable ==
    ex_calls > 0 =>
        /\ \A k \in NonEmptyKeys(ex_metrics) :
              /\ Cardinality(WritesOf(ex_writes, k)) = 1
              /\ \A i \in WritesOf(ex_writes, k) :
                    /\ ex_writes[i].content.kind = "csv"
                    /\ ex_writes[i].content.lines - 1 = TableOf(ex_metrics, k).rows
                    /\ ex_writes[i].path \in DOMAIN out_dir
                    /\ out_dir[ex_writes[i].path] = ex_writes[i].content
        /\ \A k \in TableKeys(ex_metrics) \ NonEmptyKeys(ex_metrics) :
              WritesOf(ex_writes, k) = {}
        /\ Cardinality({i \in 1..Len(ex_writes) :
                           ex_writes[i].content.kind = "csv"})
              = Cardinality(NonEmptyKeys(ex_metrics))
        /\ Cardinality({i \in 1..Len(ex_writes) :
                           ex_writes[i].content.kind = "json"}) = 1
        /\ \A i, j \in 1..Len(ex_writes) :
              ex_writes[i].path = ex_writes[j].path => i = j
        /\ Len(ex_writes) = Cardinality(NonEmptyKeys(ex_metrics)) + 1

\* an export of one non-empty table next to empty ones: one CSV, one JSON
C19_Witness ==
    /\ ex_calls > 0
    /\ Cardinality(NonEmptyKeys(ex_metrics)) = 1
    /\ TableKeys(ex_metrics) \ NonEmptyKeys(ex_metrics) # {}
    /\ Len(ex_writes) = 2
    /\ Cardinality(DOMAIN out_dir) = 2

\* C20: no export call writes a path that an earlier call into the same
\* directory wrote, whatever the time between the calls.
C20_ExportNeverOverwrites ==
    [][Exports =>
          \A i \in 1..Len(ex_writes') : ex_writes'[i].path \notin DOMAIN out_dir]_vars

\* ------------------------------------------------------- C23, C24, C25, C30
\* thread t stores the entry of key k (line 64)
StoresEntry(t, k) ==
    pc[t] = "store" /\ pc'[t] = "store_ts" /\ k = <<"all_metrics", days[t]>>

\* thread t runs the first statement of clear_cache (line 286)
ClearsEntries(t) == pc[t] = "idle" /\ pc'[t] = "clear_ts"

\* thread t stores the timestamp of key k (line 65)
StoresStamp(t, k) ==
    pc[t] = "store_ts" /\ pc'[t] = "idle" /\ k = <<"all_metrics", days[t]>>

\* thread t runs the second statement of clear_cache (line 287)
ClearsStamps(t) == pc[t] = "clear_ts" /\ pc'[t] = "idle"

\* C23: the cache is never swept by age: a stored entry (and its timestamp)
\* is removed or replaced only by the store of a miss for the same day-window
\* or by clear_cache; the clock, the read of an expired entry and reads and
\* writes of other day-windows leave it in place.
C23_CacheNeverSwept ==
    [][/\ \A k \in DOMAIN cache :
             (k \notin DOMAIN cache' \/ cache'[k] # cache[k]) =>
                 \E t \in Threads : StoresEntry(t, k) \/ ClearsEntries(t)
       /\ \A k \in DOMAIN cache_timestamps :
             (k \notin DOMAIN cache_timestamps'
                  \/ cache_timestamps'[k] # cache_timestamps[k]) =>
                 \E t \in Threads : StoresStamp(t, k) \/ ClearsStamps(t)]_vars

\* a call has read an entry as expired and fans out, the entry still stored
\* next to the entry of another day-window
C23_Witness ==
    \E t \in Threads :
        /\ pc[t] = "wait_job"
        /\ use_cache[t]
        /\ <<"all_metrics", days[t]>> \in DOMAIN cache
        /\ <<"all_metrics", days[t]>> \in DOMAIN cache_timestamps
        /\ now - cache_timestamps[<<"all_metrics", days[t]>>] >= refresh_interval
        /\ Cardinality(DOMAIN cache) = 2

\* C24: a call whose validity check passed finds the entry it looks up next,
\* under any interleaving with clear_cache or another get_all_metrics.
C24_ValidatedReadFindsEntry ==
    \A t \in Threads : pc[t] = "hit" => <<"all_metrics", days[t]>> \in DOMAIN cache

\* C25: get_all_metrics leaves the pool only when neither task is running; a
\* task whose wait timed out ends before the call goes on, its late result
\* fills no slot, and the entry stored is the `metrics` with that slot empty.
C25_PoolDrainedBeforeReturn ==
    [][\A t \in Threads :
          /\ (pc[t] = "shutdown" /\ pc'[t] # "shutdown") =>
                /\ job_future[t] # RunningFuture
                /\ cluster_future[t] # RunningFuture
                /\ job_future[t] = LateFuture => metrics[t].job_metrics = EmptyDict
                /\ cluster_future[t] = LateFuture =>
                      metrics[t].cluster_metrics = EmptyDict
          /\ (pc[t] = "shutdown" /\ pc'[t] \in {"shutdown", "store"}) =>
                metrics'[t] = metrics[t]
          /\ (pc[t] = "store" /\ pc'[t] = "store_ts") =>
                /\ <<"all_metrics", days[t]>> \in DOMAIN cache'
                /\ cache'[<<"all_metrics", days[t]>>] = metrics[t]]_vars

\* a task ended after its wait had timed out: the pool can now be left, the
\* slot of the task is empty
C25_Witness ==
    \E t \in Threads :
        /\ pc[t] = "shutdown"
        /\ job_future[t] = LateFuture
        /\ cluster_future[t] # RunningFuture
        /\ metrics[t].job_metrics = EmptyDict
        /\ metrics[t].cluster_metrics # EmptyDict

\* C30: every cached entry stored under the key of day-window d has
\* days_analyzed = d and holds both the job_metrics and the cluster_metrics
\* slot.
C30_EntryMatchesItsKey ==
    \A k \in DOMAIN cache :
        /\ k[1] = "all_metrics"
        /\ {"job_metrics", "cluster_metrics", "days_analyzed"} \subseteq DOMAIN cache[k]
        /\ cache[k].days_analyzed = k[2]

\* two day-windows cached, one of them after a fan-out that lost a slot
C30_Witness ==
    /\ Cardinality(DOMAIN cache) = 2
    /\ \E k \in DOMAIN cache : cache[k].job_metrics = EmptyDict
    /\ \E k \in DOMAIN cache : cache[k].job_metrics # EmptyDict

\* ================================================= command-line entry points
\* The `if __name__ == "__main__"` blocks and the try/except of each main().
CliScripts ==
    {"cluster_performance_analysis", "run_local_monitoring",
     "job_performance_analysis", "working_monitor", "utils_main"}

\* --analysis-days, --cpu-threshold, --memory-threshold (argparse, lines
\* 491-495 of cluster_performance_analysis.py); the other scripts take none
NoFlags == [analysis_days |-> 7, cpu_threshold |-> 80, memory_threshold |-> 85]

FlagValues ==
    [analysis_days : {1, 7}, cpu_threshold : {80, 90}, memory_threshold : {85, 95}]

FlagsOf(script) ==
    IF script = "cluster_performance_analysis" THEN FlagValues ELSE {NoFlags}

\* the statements of main()'s try block, in order
CliStages(script) ==
    CASE script = "cluster_performance_analysis" ->
             <<"analyzer", "availability", "utilization", "report">>
      [] script = "working_monitor" ->
             <<"connection", "metrics", "report", "summary">>
      [] script = "utils_main" ->
             <<"configuration", "client", "report", "write">>
      [] OTHER ->
             <<"configuration", "connection", "metrics", "report">>

\* the stages at which main() (or run_analysis) gives up with a plain return
EarlyReturnStages(script) ==
    CASE script = "cluster_performance_analysis" -> {"availability", "utilization"}
      [] script = "working_monitor" -> {}
      [] script = "utils_main" -> {"configuration"}
      [] OTHER -> {"configuration", "connection"}

\* what that plain return hands back
EarlyReturnValue(script) ==
    IF script \in {"run_local_monitoring", "job_performance_analysis"}
    THEN "False" ELSE "None"

\* what main() hands back when it reaches the end of its try block
SuccessValue(script) ==
    IF script \in {"run_local_monitoring", "job_performance_analysis",
                   "working_monitor"}
    THEN "True" ELSE "None"

\* what the except branch of main() does with an exception of the try block:
\* return False (run_local_monitoring 183-187, job_performance_analysis
\* 127-131, working_monitor 328-332), print it and go on
\* (cluster_performance_analysis 505-511), or re-raise (utils 43-45)
ExceptValue(script) ==
    CASE script = "cluster_performance_analysis" -> "None"
      [] script = "utils_main" -> "raised"
      [] OTHER -> "False"

\* the exit status of the process: `success = main(); if not success:
\* sys.exit(1)` for the three monitoring scripts, a bare `main()` for the
\* other two, where only an exception that leaves main() ends with status 1
ExitCode(script, ret) ==
    IF script \in {"run_local_monitoring", "job_performance_analysis",
                   "working_monitor"}
    THEN IF ret = "True" THEN 0 ELSE 1
    ELSE IF ret = "raised" THEN 1 ELSE 0

CliInit ==
    /\ cli \in CliScripts
    /\ cli_args \in FlagsOf(cli)
    /\ cli_pc = "start"
    /\ cli_stage = 0
    /\ cli_failure = "none"
    /\ cli_ret = "pending"
    /\ exit_code = -1

\* main() enters its try block
CliEnter ==
    /\ cli_pc = "start"
    /\ cli_pc' = "running"
    /\ cli_stage' = 1
    /\ UNCHANGED <<cli, cli_args, cli_failure, cli_ret, exit_code>>

\* the current statement completes
CliStageDone ==
    /\ cli_pc = "running"
    /\ IF cli_stage < Len(CliStages(cli))
       THEN /\ cli_stage' = cli_stage + 1
            /\ UNCHANGED <<cli_pc, cli_ret>>
       ELSE /\ cli_pc' = "returned"
            /\ cli_ret' = SuccessValue(cli)
            /\ UNCHANGED cli_stage
    /\ UNCHANGED <<cli, cli_args, cli_failure, exit_code>>

\* the current statement finds nothing to go on with: plain return
CliEarlyReturn ==
    /\ cli_pc = "running"
    /\ CliStages(cli)[cli_stage] \in EarlyReturnStages(cli)
    /\ cli_failure' = "early_return"
    /\ cli_ret' = EarlyReturnValue(cli)
    /\ cli_pc' = "returned"
    /\ UNCHANGED <<cli, cli_args, cli_stage, exit_code>>

\* the current statement raises: the except branch of main() runs
CliStageRaises ==
    /\ cli_pc = "running"
    /\ cli_failure' = "exception"
    /\ cli_ret' = ExceptValue(cli)
    /\ cli_pc' = "returned"
    /\ UNCHANGED <<cli, cli_args, cli_stage, exit_code>>

\* the __main__ block ends the process
CliExit ==
    /\ cli_pc = "returned"
    /\ exit_code' = ExitCode(cli, cli_ret)
    /\ cli_pc' = "exited"
    /\ UNCHANGED <<cli, cli_args, cli_stage, cli_failure, cli_ret>>

CliNext ==
    \/ CliEnter
    \/ CliStageDone
    \/ CliEarlyReturn
    \/ CliStageRaises
    \/ CliExit

CliQuiet ==
    /\ CliInit
    /\ cli = "utils_main"

\* ------------------------------------------------------------------ C21
\* C21: every entry point ends with exit code 0 when its run succeeded and
\* with exit code 1 when an exception ended the run, the flag-taking analysis
\* CLI included.
C21_ExitCodeReflectsFailure ==
    cli_pc = "exited" =>
        /\ cli_failure = "none" => exit_code = 0
        /\ cli_failure = "exception" => exit_code = 1

\* ======================================= one SystemTablesClient, two monitors
\* The fan-out of get_all_metrics (metrics_collector.py lines 41-44) runs
\* JobMonitor.get_comprehensive_job_metrics and ClusterMonitor.get_metrics in
\* two pool workers; both monitors hold the same SystemTablesClient, whose
\* query_system_table (lines 69-89) works on self.sql_connection.  The main
\* thread calls test_connection, query_system_table and close_connections
\* before or after the fan-out.
Workers == {"job", "cluster"}

\* the tables whose query carries the day-window; _get_node_types takes none
TakesDays(w, table) == ~(w = "cluster" /\ table = "node_types")

NoDays == -1

\* the day-window a monitor works with: ClusterMonitor.get_metrics line 12
\* validates it, get_comprehensive_job_metrics passes it on as it came
WorkerDays(w, d) == IF w = "cluster" THEN ValidateTimeRange(d) ELSE d

\* the query a monitor hands to query_system_table for its i-th table
QueryOf(w, i, d) ==
    [monitor |-> w, table |-> MonitorTables(w)[i],
     days |-> IF TakesDays(w, MonitorTables(w)[i]) THEN d ELSE NoDays]

DirectCalls == {"query_system_table", "test_connection"}

SharedInit ==
    /\ sh_session \in {"None", "open"}
    /\ sh_days \in DayInputs
    /\ w_pc = [w \in Workers |-> "unsubmitted"]
    /\ w_i = [w \in Workers |-> 0]
    /\ w_days = [w \in Workers |-> 0]
    /\ issued = {}
    /\ wire = {}
    /\ d_call = "none"
    /\ d_pc = "idle"
    /\ d_path = "none"
    /\ d_after_close = FALSE
    /\ mgr_sql = "None"
    /\ mgr_sessions = 0

\* no pool worker is running: the main thread is outside the fan-out
MainThreadRuns ==
    \/ \A w \in Workers : w_pc[w] = "unsubmitted"
    \/ \A w \in Workers : w_pc[w] = "returned"

\* metrics_collector.py lines 43-44: both tasks are submitted to the pool
SubmitBoth ==
    /\ \A w \in Workers : w_pc[w] = "unsubmitted"
    /\ d_pc = "idle"
    /\ w_pc' = [w \in Workers |-> "submitted"]
    /\ UNCHANGED <<sh_session, sh_days, w_i, w_days, issued, wire, d_call, d_pc,
                   d_path, d_after_close, mgr_sql, mgr_sessions>>

\* a pool worker starts its monitor method
WorkerStart(w) ==
    /\ w_pc[w] = "submitted"
    /\ w_days' = [w_days EXCEPT ![w] = WorkerDays(w, sh_days)]
    /\ w_i' = [w_i EXCEPT ![w] = 1]
    /\ w_pc' = [w_pc EXCEPT ![w] = "next"]
    /\ UNCHANGED <<sh_session, sh_days, issued, wire, d_call, d_pc, d_path,
                   d_after_close, mgr_sql, mgr_sessions>>

\* the monitor builds the query of its next table and calls
\* query_system_table: lines 71-73 return an empty table without a session
WorkerQuery(w) ==
    /\ w_pc[w] = "next"
    /\ w_i[w] <= Len(MonitorTables(w))
    /\ issued' = issued \cup {QueryOf(w, w_i[w], w_days[w])}
    /\ IF sh_session = "None"
       THEN /\ w_i' = [w_i EXCEPT ![w] = @ + 1]
            /\ w_pc' = w_pc
       ELSE /\ w_pc' = [w_pc EXCEPT ![w] = "cursor"]
            /\ w_i' = w_i
    /\ UNCHANGED <<sh_session, sh_days, w_days, wire, d_call, d_pc, d_path,
                   d_after_close, mgr_sql, mgr_sessions>>

\* line 77: cursor = self.sql_connection.cursor(); on a closed session the
\* connector raises here or hands out a cursor that fails later
WorkerCursor(w) ==
    /\ w_pc[w] = "cursor"
    /\ \/ /\ w_pc' = [w_pc EXCEPT ![w] = "execute"]
          /\ w_i' = w_i
       \/ /\ sh_session = "closed"
          /\ w_pc' = [w_pc EXCEPT ![w] = "next"]
          /\ w_i' = [w_i EXCEPT ![w] = @ + 1]
    /\ UNCHANGED <<sh_session, sh_days, w_days, issued, wire, d_call, d_pc,
                   d_path, d_after_close, mgr_sql, mgr_sessions>>

\* line 78: cursor.execute(query) sends the statement on the session
WorkerExecuteBegin(w) ==
    /\ w_pc[w] = "execute"
    /\ wire' = wire \cup {[who |-> w, session |-> sh_session]}
    /\ w_pc' = [w_pc EXCEPT ![w] = "executing"]
    /\ UNCHANGED <<sh_session, sh_days, w_i, w_days, issued, d_call, d_pc,
                   d_path, d_after_close, mgr_sql, mgr_sessions>>

\* cursor.execute returns, or raises and lines 87-89 return an empty table
WorkerExecuteEnd(w) ==
    /\ w_pc[w] = "executing"
    /\ \/ /\ sh_session = "open"
          /\ w_pc' = [w_pc EXCEPT ![w] = "fetchall"]
          /\ w_i' = w_i
       \/ /\ w_pc' = [w_pc EXCEPT ![w] = "next"]
          /\ w_i' = [w_i EXCEPT ![w] = @ + 1]
    /\ UNCHANGED <<sh_session, sh_days, w_days, issued, wire, d_call, d_pc,
                   d_path, d_after_close, mgr_sql, mgr_sessions>>

\* lines 79-85: fetchall, cursor.close(), the DataFrame goes to the monitor
WorkerFetch(w) ==
    /\ w_pc[w] = "fetchall"
    /\ w_pc' = [w_pc EXCEPT ![w] = "next"]
    /\ w_i' = [w_i EXCEPT ![w] = @ + 1]
    /\ UNCHANGED <<sh_session, sh_days, w_days, issued, wire, d_call, d_pc,
                   d_path, d_after_close, mgr_sql, mgr_sessions>>

\* the monitor returns its tables
WorkerReturn(w) ==
    /\ w_pc[w] = "next"
    /\ w_i[w] > Len(MonitorTables(w))
    /\ w_pc' = [w_pc EXCEPT ![w] = "returned"]
    /\ UNCHANGED <<sh_session, sh_days, w_i, w_days, issued, wire, d_call,
                   d_pc, d_path, d_after_close, mgr_sql, mgr_sessions>>

\* SystemTablesClient.close_connections lines 271-276: the session is closed,
\* self.sql_connection keeps the closed object
ClosedSession == "closed"

CloseConnections ==
    /\ MainThreadRuns
    /\ d_pc = "idle"
    /\ sh_session = "open"
    /\ sh_session' = ClosedSession
    /\ UNCHANGED <<sh_days, w_pc, w_i, w_days, issued, wire, d_call, d_pc,
                   d_path, d_after_close, mgr_sql, mgr_sessions>>

\* the main thread calls test_connection (lines 56-58) or query_system_table
\* (lines 71-73): `if not self.sql_connection` takes the no-connection
\* return only when the attribute is None
DirectCall ==
    /\ MainThreadRuns
    /\ d_pc = "idle"
    /\ \E c \in DirectCalls : d_call' = c
    /\ d_after_close' = (sh_session = "closed")
    /\ IF sh_session = "None"
       THEN d_path' = "no_connection" /\ d_pc' = "done"
       ELSE d_path' = "try_block" /\ d_pc' = "cursor"
    /\ UNCHANGED <<sh_session, sh_days, w_pc, w_i, w_days, issued, wire,
                   mgr_sql, mgr_sessions>>

\* lines 60 / 77: the cursor
DirectCursor ==
    /\ d_pc = "cursor"
    /\ \/ d_pc' = "execute"
       \/ sh_session = "closed" /\ d_pc' = "done"
    /\ UNCHANGED <<sh_session, sh_days, w_pc, w_i, w_days, issued, wire,
                   d_call, d_path, d_after_close, mgr_sql, mgr_sessions>>

\* lines 61-64 / 78-85: execute and fetch, or the except branch
DirectExecute ==
    /\ d_pc = "execute"
    /\ wire' = wire \cup {[who |-> "main", session |-> sh_session]}
    /\ d_pc' = "done"
    /\ UNCHANGED <<sh_session, sh_days, w_pc, w_i, w_days, issued, d_call,
                   d_path, d_after_close, mgr_sql, mgr_sessions>>

\* the call returns to the main thread
DirectReturn ==
    /\ d_pc = "done"
    /\ d_pc' = "idle"
    /\ UNCHANGED <<sh_session, sh_days, w_pc, w_i, w_days, issued, wire,
                   d_call, d_path, d_after_close, mgr_sql, mgr_sessions>>

\* DatabricksConnectionManager.sql_connection (databricks_client.py lines
\* 33-46), local environment with a warehouse id: connect only when
\* _sql_connection is None
ManagerSqlConnection ==
    /\ mgr_sql = "None"
    /\ mgr_sql' = "open"
    /\ mgr_sessions' = mgr_sessions + 1
    /\ UNCHANGED <<sh_session, sh_days, w_pc, w_i, w_days, issued, wire,
                   d_call, d_pc, d_path, d_after_close>>

\* DatabricksConnectionManager.close_connections (lines 67-74)
ManagerCloseConnections ==
    /\ mgr_sql = "open"
    /\ mgr_sql' = "None"
    /\ mgr_sessions' = mgr_sessions - 1
    /\ UNCHANGED <<sh_session, sh_days, w_pc, w_i, w_days, issued, wire,
                   d_call, d_pc, d_path, d_after_close>>

SharedNext ==
    \/ SubmitBoth
    \/ \E w \in Workers :
          \/ WorkerStart(w)
          \/ WorkerQuery(w)
          \/ WorkerCursor(w)
          \/ WorkerExecuteBegin(w)
          \/ WorkerExecuteEnd(w)
          \/ WorkerFetch(w)
          \/ WorkerReturn(w)
    \/ CloseConnections
    \/ DirectCall
    \/ DirectCursor
    \/ DirectExecute
    \/ DirectReturn
    \/ ManagerSqlConnection
    \/ ManagerCloseConnections

SharedQuiet ==
    /\ SharedInit
    /\ sh_session = "None"
    /\ sh_days = 7

\* ------------------------------------------------------- C22, C27, C29
\* the workers whose statement is running on the session
InFlight == {w \in Workers : w_pc[w] \in {"executing", "fetchall"}}

\* C22: with one SystemTablesClient under both monitors, no two queries are
\* in flight on the session at the same time during the fan-out.
C22_SessionAccessSerialized == Cardinality(InFlight) <= 1

\* C27: after close_connections no query_system_table or test_connection
\* call sends anything on the closed session; such a call takes the
\* no-connection return.
C27_ClosedSessionNotUsed ==
    /\ (d_call # "none" /\ d_after_close) => d_path = "no_connection"
    /\ \A x \in wire : x.session # "closed"

\* C29: every day-window ClusterMonitor.get_metrics puts into a query lies in
\* 1..90: 1 for an argument below 1, 90 for one above 90, the argument itself
\* otherwise, and validating it again changes nothing.
C29_ClusterQueriesUseClampedDays ==
    \A q \in issued :
        (q.monitor = "cluster" /\ q.days # NoDays) =>
            /\ q.days \in 1..90
            /\ sh_days < 1 => q.days = 1
            /\ sh_days > 90 => q.days = 90
            /\ sh_days \in 1..90 => q.days = sh_days
            /\ ValidateTimeRange(q.days) = q.days

\* the cluster monitor was asked for 91 days and issued all its queries
C29_Witness ==
    /\ sh_days = 91
    /\ w_pc["cluster"] = "returned"
    /\ {q.table : q \in {x \in issued : x.monitor = "cluster" /\ x.days = 90}}
          = {"cluster_utilization", "efficiency_metrics", "cost_analysis"}
    /\ \E q \in issued : q.monitor = "cluster" /\ q.days = NoDays

\* ================================ the snapshots one export call is built from
\* export_metrics_to_csv reads the metrics twice: line 199 calls
\* get_all_metrics(days) for the CSV files, line 222 calls
\* get_summary_statistics(days), whose first statement (line 71) calls
\* get_all_metrics(days) again for the JSON summary.  Each call is a cache
\* hit or a fan-out (lines 25-67); another thread may call clear_cache.
SnapDays == 7

NoSnapshot == -1

\* get_all_metrics(days) as one step: the entry on a hit, else a fan-out
\* whose result is stored (use_cache defaults to True)
SnapIsHit ==
    IsCacheValid(CacheKey(SnapDays), sn_stamps, sn_now, sn_interval)

SnapGetAllMetrics ==
    IF SnapIsHit
    THEN /\ sn_metrics' = sn_cache[CacheKey(SnapDays)]
         /\ UNCHANGED <<sn_cache, sn_stamps, sn_fanouts>>
    ELSE /\ sn_metrics' = NewMetrics(SnapDays, sn_now)
         /\ sn_cache' = CacheStore(sn_cache, CacheKey(SnapDays),
                                   NewMetrics(SnapDays, sn_now))
         /\ sn_stamps' = Put(sn_stamps, CacheKey(SnapDays), sn_now)
         /\ sn_fanouts' = sn_fanouts + 1

SnapInit ==
    /\ sn_now = 0
    /\ sn_interval \in RefreshIntervals
    /\ sn_cache = EmptyDict
    /\ sn_stamps = EmptyDict
    /\ sn_pc = "idle"
    /\ sn_metrics = EmptyDict
    /\ sn_fanouts = 0
    /\ sn_csv_time = NoSnapshot
    /\ sn_json_time = NoSnapshot
    /\ sn_exports = 0

SnapTick ==
    /\ sn_now + ClockStep <= MaxNow
    /\ sn_now' = sn_now + ClockStep
    /\ UNCHANGED <<sn_interval, sn_cache, sn_stamps, sn_pc, sn_metrics,
                   sn_fanouts, sn_csv_time, sn_json_time, sn_exports>>

\* clear_cache, called by another thread
SnapClearCache ==
    /\ sn_cache # EmptyDict
    /\ sn_cache' = EmptyDict
    /\ sn_stamps' = EmptyDict
    /\ UNCHANGED <<sn_now, sn_interval, sn_pc, sn_metrics, sn_fanouts,
                   sn_csv_time, sn_json_time, sn_exports>>

\* export_metrics_to_csv lines 192-199: metrics = self.get_all_metrics(days)
SnapExportMetrics ==
    /\ sn_pc = "idle"
    /\ sn_exports < MaxExports
    /\ sn_exports' = sn_exports + 1
    /\ IF SnapIsHit
       THEN /\ sn_metrics' = sn_cache[CacheKey(SnapDays)]
            /\ sn_fanouts' = 0
            /\ UNCHANGED <<sn_cache, sn_stamps>>
       ELSE /\ sn_metrics' = NewMetrics(SnapDays, sn_now)
            /\ sn_cache' = CacheStore(sn_cache, CacheKey(SnapDays),
                                      NewMetrics(SnapDays, sn_now))
            /\ sn_stamps' = Put(sn_stamps, CacheKey(SnapDays), sn_now)
            /\ sn_fanouts' = 1
    /\ sn_csv_time' = NoSnapshot
    /\ sn_json_time' = NoSnapshot
    /\ sn_pc' = "csv"
    /\ UNCHANGED <<sn_now, sn_interval>>

\* lines 201-219: the CSV files are written from `metrics`
SnapWriteCsv ==
    /\ sn_pc = "csv"
    /\ sn_csv_time' = sn_metrics.collection_time
    /\ sn_pc' = "summary"
    /\ UNCHANGED <<sn_now, sn_interval, sn_cache, sn_stamps, sn_metrics,
                   sn_fanouts, sn_json_time, sn_exports>>

\* line 222 with line 71: get_summary_statistics fetches the metrics itself
SnapGetSummary ==
    /\ sn_pc = "summary"
    /\ SnapGetAllMetrics
    /\ sn_pc' = "json"
    /\ UNCHANGED <<sn_now, sn_interval, sn_csv_time, sn_json_time, sn_exports>>

\* lines 223-235: the summary, with its collection_time (line 74), is written
SnapWriteJson ==
    /\ sn_pc = "json"
    /\ sn_json_time' = sn_metrics.collection_time
    /\ sn_pc' = "idle"
    /\ UNCHANGED <<sn_now, sn_interval, sn_cache, sn_stamps, sn_metrics,
                   sn_fanouts, sn_csv_time, sn_exports>>

SnapNext ==
    \/ SnapTick
    \/ SnapClearCache
    \/ SnapExportMetrics
    \/ SnapWriteCsv
    \/ SnapGetSummary
    \/ SnapWriteJson

SnapQuiet ==
    /\ SnapInit
    /\ sn_interval = 300

\* ------------------------------------------------------------------ C26
\* C26: one export call makes at most one fan-out, and the CSV files and the
\* JSON summary it has written carry the same collection_time, also when the
\* cache entry expires or is cleared during the export or refresh_interval
\* is 0.
C26_ExportUsesOneSnapshot ==
    /\ sn_fanouts <= 1
    /\ (sn_csv_time # NoSnapshot /\ sn_json_time # NoSnapshot) =>
           sn_csv_time = sn_json_time

\* ======================================================= get_summary_statistics
\* Tables are sequences of rows; the values are chosen so that every mean and
\* every division by 60 is a whole number.
RuntimeSummaryTables ==
    {<< >>,
     <<[avg_duration_seconds |-> 3600, total_runs |-> 4],
       [avg_duration_seconds |-> 1200, total_runs |-> 2]>>}

FailureRow(rate, failed) == [success_rate_percent |-> rate, failed_runs |-> failed]

FailureSummaryTables ==
    {<< >>,
     <<FailureRow(97, 0)>>, <<FailureRow(90, 1)>>, <<FailureRow(80, 3)>>,
     <<FailureRow(96, 0), FailureRow(98, 0)>>,
     <<FailureRow(100, 0), FailureRow(80, 2)>>}

UtilRow(id, cpu, mem) ==
    [cluster_id |-> id, avg_cpu_utilization |-> cpu, avg_memory_utilization |-> mem]

UtilSummaryTables ==
    {<< >>,
     <<UtilRow("c1", 50, 40)>>, <<UtilRow("c1", 15, 40)>>,
     <<UtilRow("c1", 95, 40)>>, <<UtilRow("c1", 5, 40)>>,
     <<UtilRow("c1", 20, 30), UtilRow("c2", 80, 50)>>,
     <<UtilRow("c1", 90, 30), UtilRow("c1", 100, 50)>>}

\* what the job monitor and the cluster monitor can have handed back: {} or
\* their tables
JobSummaryValues ==
    {EmptyDict} \cup
    {[runtime_metrics |-> r, failure_analysis |-> f, cluster_utilization |-> << >>] :
        r \in RuntimeSummaryTables, f \in FailureSummaryTables}

ClusterSummaryValues ==
    {EmptyDict} \cup
    {[cluster_utilization |-> u, node_types |-> << >>,
      efficiency_metrics |-> << >>, cost_analysis |-> << >>] :
        u \in UtilSummaryTables}

RECURSIVE SumOf(_, _)
SumOf(table, column) ==
    IF table = << >> THEN 0
    ELSE Head(table)[column] + SumOf(Tail(table), column)

\* df[column].mean()
MeanOf(table, column) == SumOf(table, column) \div Len(table)

\* `'<name>' in tables and not tables['<name>'].empty`
HasData(tables, name) == name \in DOMAIN tables /\ tables[name] # << >>

\* lines 82-96: job_stats
JobStatsOf(job_metrics) ==
    LET runtime ==
            IF HasData(job_metrics, "runtime_metrics")
            THEN LET df == job_metrics.runtime_metrics
                 IN  [total_jobs |-> Len(df),
                      avg_runtime_minutes |-> MeanOf(df, "avg_duration_seconds") \div 60,
                      total_runs |-> SumOf(df, "total_runs")]
            ELSE EmptyDict
    IN  IF HasData(job_metrics, "failure_analysis")
        THEN LET df == job_metrics.failure_analysis
             IN  Put(Put(runtime, "avg_success_rate", MeanOf(df, "success_rate_percent")),
                     "total_failures", SumOf(df, "failed_runs"))
        ELSE runtime

\* lines 99-106: cluster_stats
ClusterStatsOf(cluster_metrics) ==
    IF HasData(cluster_metrics, "cluster_utilization")
    THEN LET df == cluster_metrics.cluster_utilization
         IN  [total_clusters |-> Cardinality({df[i].cluster_id : i \in 1..Len(df)}),
              avg_cpu_utilization |-> MeanOf(df, "avg_cpu_utilization"),
              avg_memory_utilization |-> MeanOf(df, "avg_memory_utilization")]
    ELSE EmptyDict

\* get_summary_statistics lines 73-111 for the metrics m of days d
SummaryOf(m, d) ==
    LET stats == [job_stats |-> JobStatsOf(m.job_metrics),
                  cluster_stats |-> ClusterStatsOf(m.cluster_metrics)]
    IN  [collection_time |-> m.collection_time,
         days_analyzed |-> d,
         job_stats |-> stats.job_stats,
         cluster_stats |-> stats.cluster_stats,
         overall_health |-> AssessHealth(stats)]

NoSummary == [overall_health |-> "none"]

SummaryInit ==
    /\ su_metrics \in [job_metrics : JobSummaryValues,
                       cluster_metrics : ClusterSummaryValues,
                       collection_time : {0}, days_analyzed : {7}]
    /\ su_summary = NoSummary

\* get_summary_statistics(days): line 71 hands it su_metrics
GetSummaryStatistics ==
    /\ su_summary' = SummaryOf(su_metrics, su_metrics.days_analyzed)
    /\ UNCHANGED su_metrics

SummaryNext == GetSummaryStatistics

SummaryQuiet ==
    /\ SummaryInit
    /\ su_metrics.job_metrics = EmptyDict
    /\ su_metrics.cluster_metrics = EmptyDict

\* ------------------------------------------------------------------ C28
\* a table of the collected metrics is present and has rows
Applicable(tables, name) == name \in DOMAIN tables /\ Len(tables[name]) > 0

\* C28: overall_health is 'good' only when both signals are applicable and
\* exactly one is in its optimal range while the other is in its acceptable
\* range; with one applicable signal it is excellent, fair or poor; and a
\* signal is applicable exactly when its table (failure_analysis,
\* cluster_utilization) is present and non-empty.
C28_GoodNeedsBothSignals ==
    su_summary # NoSummary =>
        LET rateOn == Applicable(su_metrics.job_metrics, "failure_analysis")
            cpuOn == Applicable(su_metrics.cluster_metrics, "cluster_utilization")
            js == su_summary.job_stats
            cs == su_summary.cluster_stats
            ratePoints == IF rateOn THEN ClaimedRatePoints2(js.avg_success_rate) ELSE 0
            cpuPoints == IF cpuOn THEN ClaimedCpuPoints2(cs.avg_cpu_utilization) ELSE 0
        IN  /\ ("avg_success_rate" \in DOMAIN js) <=> rateOn
            /\ ("avg_cpu_utilization" \in DOMAIN cs) <=> cpuOn
            /\ (su_summary.overall_health = "good") <=>
                   (rateOn /\ cpuOn /\ {ratePoints, cpuPoints} = {1, 2})
            /\ (rateOn # cpuOn) =>
                   su_summary.overall_health \in {"excellent", "fair", "poor"}

\* a summary that came out 'good'
C28_Witness ==
    /\ su_summary # NoSummary
    /\ su_summary.overall_health = "good"
    /\ "avg_success_rate" \in DOMAIN su_summary.job_stats
    /\ "avg_cpu_utilization" \in DOMAIN su_summary.cluster_stats

\* ========================================================= specifications
\* the parts that take no step in a specification
ExtraQuiet == CliQuiet /\ SharedQuiet /\ SnapQuiet /\ SummaryQuiet

ToolsQuiet == AnomQuiet /\ HealthQuiet /\ ReportQuiet /\ ExportQuiet /\ ExtraQuiet

\* the collector with no client activity
MonQuiet ==
    /\ MonInit
    /\ warehouse_id = "wh"

\* the client and the monitors with no collector activity
CollectorQuiet ==
    /\ CollectorInit
    /\ refresh_interval = 300

Init == CollectorInit /\ MonQuiet /\ ToolsQuiet

Next == CollectorNext /\ UNCHANGED <<monVars, toolVars>>

Spec == Init /\ [][Next]_vars

InitMon == MonInit /\ CollectorQuiet /\ ToolsQuiet

NextMon == MonNext /\ UNCHANGED <<collectorVars, toolVars>>

SpecMon == InitMon /\ [][NextMon]_vars

InitAnom ==
    /\ AnomInit /\ CollectorQuiet /\ MonQuiet /\ HealthQuiet /\ ReportQuiet /\ ExportQuiet
    /\ ExtraQuiet

NextAnom ==
    AnomNext /\ UNCHANGED <<collectorVars, monVars, healthVars, reportVars, exportVars,
                             extraVars>>

SpecAnom == InitAnom /\ [][NextAnom]_vars

InitHealth ==
    /\ HealthInit /\ CollectorQuiet /\ MonQuiet /\ AnomQuiet /\ ReportQuiet /\ ExportQuiet
    /\ ExtraQuiet

NextHealth ==
    HealthNext /\ UNCHANGED <<collectorVars, monVars, anomVars, reportVars, exportVars,
                             extraVars>>

SpecHealth == InitHealth /\ [][NextHealth]_vars

InitReport ==
    /\ ReportInit /\ CollectorQuiet /\ MonQuiet /\ AnomQuiet /\ HealthQuiet /\ ExportQuiet
    /\ ExtraQuiet

NextReport ==
    ReportNext /\ UNCHANGED <<collectorVars, monVars, anomVars, healthVars, exportVars,
                             extraVars>>

SpecReport == InitReport /\ [][NextReport]_vars

InitExport ==
    /\ ExportInit /\ CollectorQuiet /\ MonQuiet /\ AnomQuiet /\ HealthQuiet /\ ReportQuiet
    /\ ExtraQuiet

NextExport ==
    ExportNext /\ UNCHANGED <<collectorVars, monVars, anomVars, healthVars, reportVars,
                             extraVars>>

SpecExport == InitExport /\ [][NextExport]_vars

\* the parts of the collector, the client and the tools at rest
BaseQuiet ==
    /\ CollectorQuiet /\ MonQuiet /\ AnomQuiet /\ HealthQuiet
    /\ ReportQuiet /\ ExportQuiet

baseVars == <<collectorVars, monVars, anomVars, healthVars, reportVars, exportVars>>

InitCli == CliInit /\ BaseQuiet /\ SharedQuiet /\ SnapQuiet /\ SummaryQuiet

NextCli == CliNext /\ UNCHANGED <<baseVars, sharedVars, snapVars, summaryVars>>

SpecCli == InitCli /\ [][NextCli]_vars

InitShared == SharedInit /\ BaseQuiet /\ CliQuiet /\ SnapQuiet /\ SummaryQuiet

NextShared == SharedNext /\ UNCHANGED <<baseVars, cliVars, snapVars, summaryVars>>

SpecShared == InitShared /\ [][NextShared]_vars

InitSnap == SnapInit /\ BaseQuiet /\ CliQuiet /\ SharedQuiet /\ SummaryQuiet

NextSnap == SnapNext /\ UNCHANGED <<baseVars, cliVars, sharedVars, summaryVars>>

SpecSnap == InitSnap /\ [][NextSnap]_vars

InitSummary == SummaryInit /\ BaseQuiet /\ CliQuiet /\ SharedQuiet /\ SnapQuiet

NextSummary == SummaryNext /\ UNCHANGED <<baseVars, cliVars, sharedVars, snapVars>>

SpecSummary == InitSummary /\ [][NextSummary]_vars

====
